---------------------------- MODULE Spec2Model ----------------------------
(***************************************************************************)
(* Model of poe-mcp's model-catalog cache (modelCache.get), its filter     *)
(* engine (filterModels, matchesQuery) and the callers around them.        *)
(*                                                                         *)
(* Time is counted in minutes since process start.  Strings are sequences  *)
(* of one-character strings so that ToLower, Fields, Join and Contains can *)
(* be computed.  A Go slice value is a record [id, elems]: id names the    *)
(* backing array (the n-th slice models.Fetch delivered, 0 for the nil     *)
(* slice) and elems is its contents.                                       *)
(***************************************************************************)
EXTENDS Integers, Sequences, FiniteSets, TLC

(***************************************************************************)
(* Bounds of the model.                                                    *)
(***************************************************************************)
NumCallers == 2
MaxCalls == 3
MaxTicks == 4
TickMinutes == 5
MaxCatalogLen == 2

Callers == 1..NumCallers
MaxTime == MaxTicks * TickMinutes

(***************************************************************************)
(* Program constants and values.                                           *)
(***************************************************************************)
cacheTTL == 15

\* No caller holds (or awaits) the lock.
NoOne == 0
NoErr == "nil"
FetchErrors == {"network error", "context canceled"}
\* The zero time.Time, and the duration time.Since saturates to for it:
\* longer than the TTL and than any duration the clock here can measure.
ZeroTime == -1
maxDuration == cacheTTL + MaxTime + 1
NilSlice == [id |-> 0, elems |-> <<>>]

\* The catalogs the remote source may deliver to the cache.
FetchCatalogs == {<<>>, <<"gpt-4o">>, <<"gpt-4o", "dall-e-3">>}

VARIABLES
    now,        \* wall clock, minutes since process start
    models,     \* c.models
    fetchedAt,  \* c.fetchedAt
    mu,         \* c.mu: readers holding it, writer holding it, writer announced
    pc,         \* position of each caller inside get
    local,      \* get's locals: fetched, err, and the Fetcher calls it issued
    ret,        \* the return values of a get call that is about to return
    seen,       \* what the freshness checks of the call in progress have read
    nCalls,     \* history: number of get calls made
    nFetch,     \* history: number of models.Fetch calls issued
    delivered,  \* history: the slices models.Fetch has returned without error
    stampedBy,  \* history: the slice whose refresh wrote c.fetchedAt
    failedLast, \* history: a get returned a fetch error, no refresh since
    sequential, \* whether callers take turns; the log is kept if they do
    log,        \* history: one record per get call that has returned
    fAll, fArgs, fResult, fpc,  \* a filterModels call: inputs, result, position
    req,        \* a front-end call: the operation and its inputs
    resp,       \* a front-end call: what it returned and did to the outside
    rpc         \* a front-end call: position

cacheState == <<models, fetchedAt>>
history == <<nCalls, nFetch, delivered, stampedBy, failedLast, sequential, log>>
filterVars == <<fAll, fArgs, fResult, fpc>>
callVars == <<req, resp, rpc>>
frontEnd == <<filterVars, callVars>>
vars == <<now, models, fetchedAt, mu, pc, local, ret, seen,
          nCalls, nFetch, delivered, stampedBy, failedLast, sequential, log,
          fAll, fArgs, fResult, fpc, req, resp, rpc>>

(***************************************************************************)
(* modelCache                                                              *)
(***************************************************************************)
\* time.Since(t): saturates for the zero Time, which lies centuries back.
Since(t) == IF t = ZeroTime THEN maxDuration ELSE now - t

\* A freshness condition that also accepts an age of exactly the TTL.
isFreshLE == Len(models.elems) > 0 /\ Since(fetchedAt) <= cacheTTL

\* A freshness condition that looks at the age alone.
isFreshByAge == Since(fetchedAt) < cacheTTL

\* The condition of the two freshness checks of get.
isFresh == Len(models.elems) > 0 /\ Since(fetchedAt) < cacheTTL

\* What a freshness check reads while it holds the lock.
Observation ==
    [entries |-> models, fetchedAt |-> fetchedAt, elapsed |-> Since(fetchedAt),
     stampedBy |-> stampedBy]

NoLocal == [fetched |-> NilSlice, err |-> NoErr, calls |-> 0, afterFail |-> FALSE]
NoResult == [entries |-> NilSlice, err |-> NoErr]

\* sync.RWMutex: RLock is granted unless a writer holds the lock or has
\* announced itself; a writer announces itself when no other writer holds
\* or awaits the lock, and is granted it once the readers have left.
\* A read lock that one reader at a time may hold.
RLockAlone == mu.writer = NoOne /\ mu.pending = NoOne /\ mu.readers = {}

\* A read lock that does not wait for the writer holding the lock.
RLockIgnoresWriter == mu.pending = NoOne

RLockGranted == mu.writer = NoOne /\ mu.pending = NoOne

LockAnnounced == mu.writer = NoOne /\ mu.pending = NoOne

\* A write lock granted while readers still hold the lock.
LockGrantedEarly(p) == mu.pending = p

LockGranted(p) == mu.pending = p /\ mu.readers = {}

CacheInit ==
    /\ now = 0
    /\ models = NilSlice
    /\ fetchedAt = ZeroTime
    /\ mu = [readers |-> {}, writer |-> NoOne, pending |-> NoOne]
    /\ pc = [p \in Callers |-> "idle"]
    /\ local = [p \in Callers |-> NoLocal]
    /\ ret = [p \in Callers |-> NoResult]
    /\ seen = [p \in Callers |-> <<>>]
    /\ nCalls = 0
    /\ nFetch = 0
    /\ delivered = {}
    /\ stampedBy = 0
    /\ failedLast = FALSE
    /\ log = <<>>

\* No front-end call is under way.
CallIdle ==
    /\ req = <<>>
    /\ resp = <<>>
    /\ rpc = "idle"

FilterIdle ==
    /\ fAll = <<>>
    /\ fArgs = [Query |-> <<>>, OwnedBy |-> <<>>, Modality |-> <<>>]
    /\ fResult = <<>>
    /\ fpc = "idle"

Init == CacheInit /\ sequential = FALSE /\ FilterIdle /\ CallIdle

\* A front-end request enters get.
Call(p) ==
    /\ pc[p] = "idle"
    /\ nCalls < MaxCalls
    /\ nCalls' = nCalls + 1
    /\ pc' = [pc EXCEPT ![p] = "rlock"]
    /\ local' = [local EXCEPT ![p] = [NoLocal EXCEPT !.afterFail = failedLast]]
    /\ UNCHANGED <<now, cacheState, mu, ret, seen>>
    /\ UNCHANGED <<nFetch, delivered, stampedBy, failedLast, sequential, log>>
    /\ UNCHANGED frontEnd

\* c.mu.RLock()
RLock(p) ==
    /\ pc[p] = "rlock"
    /\ RLockGranted
    /\ mu' = [mu EXCEPT !.readers = @ \cup {p}]
    /\ pc' = [pc EXCEPT ![p] = "check1"]
    /\ UNCHANGED <<now, cacheState, local, ret, seen, history, frontEnd>>

\* The first freshness check; a fresh cache is returned through the
\* deferred RUnlock.
Check1(p) ==
    /\ pc[p] = "check1"
    /\ seen' = [seen EXCEPT ![p] = Append(@, Observation)]
    /\ IF isFresh
         THEN /\ ret' = [ret EXCEPT ![p] = [entries |-> models, err |-> NoErr]]
              /\ pc' = [pc EXCEPT ![p] = "hit"]
         ELSE /\ ret' = ret
              /\ pc' = [pc EXCEPT ![p] = "runlock"]
    /\ UNCHANGED <<now, cacheState, mu, local, history, frontEnd>>

\* The record of a get call that returns.
Returned(p) ==
    [elapsed |-> seen[p][1].elapsed, calls |-> local[p].calls,
     entries |-> ret[p].entries, err |-> ret[p].err, fetches |-> nFetch]

\* get returns to its caller.
Return(p) ==
    /\ pc' = [pc EXCEPT ![p] = "idle"]
    /\ log' = IF sequential THEN Append(log, Returned(p)) ELSE log
    /\ failedLast' = IF ret[p].err # NoErr THEN TRUE ELSE failedLast
    /\ local' = [local EXCEPT ![p] = NoLocal]
    /\ ret' = [ret EXCEPT ![p] = NoResult]
    /\ seen' = [seen EXCEPT ![p] = <<>>]
    /\ UNCHANGED <<nCalls, nFetch, delivered, stampedBy, sequential>>

\* The deferred c.mu.RUnlock() of the cache hit, and the return.
RUnlockHit(p) ==
    /\ pc[p] = "hit"
    /\ mu' = [mu EXCEPT !.readers = @ \ {p}]
    /\ Return(p)
    /\ UNCHANGED <<now, cacheState, frontEnd>>

\* c.mu.RUnlock() after a stale first check.
RUnlockStale(p) ==
    /\ pc[p] = "runlock"
    /\ mu' = [mu EXCEPT !.readers = @ \ {p}]
    /\ pc' = [pc EXCEPT ![p] = "lock"]
    /\ UNCHANGED <<now, cacheState, local, ret, seen, history, frontEnd>>

\* c.mu.Lock(): the writer announces itself, which holds new readers back.
LockAnnounce(p) ==
    /\ pc[p] = "lock"
    /\ LockAnnounced
    /\ mu' = [mu EXCEPT !.pending = p]
    /\ pc' = [pc EXCEPT ![p] = "lockwait"]
    /\ UNCHANGED <<now, cacheState, local, ret, seen, history, frontEnd>>

\* c.mu.Lock() returns once the readers have left.
LockAcquire(p) ==
    /\ pc[p] = "lockwait"
    /\ LockGranted(p)
    /\ mu' = [mu EXCEPT !.pending = NoOne, !.writer = p]
    /\ pc' = [pc EXCEPT ![p] = "check2"]
    /\ UNCHANGED <<now, cacheState, local, ret, seen, history, frontEnd>>

\* A get without the second check: whoever takes the write lock fetches.
Check2NoRecheck(p) ==
    /\ pc[p] = "check2"
    /\ seen' = [seen EXCEPT ![p] = Append(@, Observation)]
    /\ ret' = ret
    /\ pc' = [pc EXCEPT ![p] = "fetching"]
    /\ local' = [local EXCEPT ![p].calls = @ + 1]
    /\ nFetch' = nFetch + 1
    /\ UNCHANGED <<now, cacheState, mu, frontEnd>>
    /\ UNCHANGED <<nCalls, delivered, stampedBy, failedLast, sequential, log>>

\* The second freshness check, under the write lock; a stale cache makes
\* get call models.Fetch.
Check2(p) ==
    /\ pc[p] = "check2"
    /\ seen' = [seen EXCEPT ![p] = Append(@, Observation)]
    /\ IF isFresh
         THEN /\ ret' = [ret EXCEPT ![p] = [entries |-> models, err |-> NoErr]]
              /\ pc' = [pc EXCEPT ![p] = "unlock"]
              /\ UNCHANGED <<local, nFetch>>
         ELSE /\ ret' = ret
              /\ pc' = [pc EXCEPT ![p] = "fetching"]
              /\ local' = [local EXCEPT ![p].calls = @ + 1]
              /\ nFetch' = nFetch + 1
    /\ UNCHANGED <<now, cacheState, mu, frontEnd>>
    /\ UNCHANGED <<nCalls, delivered, stampedBy, failedLast, sequential, log>>

\* models.Fetch returns a catalog, in a slice of its own.
FetchOK(p) ==
    /\ pc[p] = "fetching"
    /\ \E cat \in FetchCatalogs :
         LET slice == [id |-> Cardinality(delivered) + 1, elems |-> cat]
         IN  /\ local' = [local EXCEPT ![p].fetched = slice]
             /\ delivered' = delivered \cup {slice}
    /\ pc' = [pc EXCEPT ![p] = "store1"]
    /\ UNCHANGED <<now, cacheState, mu, ret, seen, frontEnd>>
    /\ UNCHANGED <<nCalls, nFetch, stampedBy, failedLast, sequential, log>>

\* A failure path that drops the cached entries.
FetchFailClears(p) ==
    /\ pc[p] = "fetching"
    /\ \E e \in FetchErrors :
         /\ local' = [local EXCEPT ![p].err = e]
         /\ ret' = [ret EXCEPT ![p] = [entries |-> NilSlice, err |-> e]]
    /\ models' = NilSlice
    /\ pc' = [pc EXCEPT ![p] = "unlock"]
    /\ UNCHANGED <<now, fetchedAt, mu, seen, history, frontEnd>>

\* A failure path that restarts the freshness window.
FetchFailStamps(p) ==
    /\ pc[p] = "fetching"
    /\ \E e \in FetchErrors :
         /\ local' = [local EXCEPT ![p].err = e]
         /\ ret' = [ret EXCEPT ![p] = [entries |-> NilSlice, err |-> e]]
    /\ fetchedAt' = now
    /\ pc' = [pc EXCEPT ![p] = "unlock"]
    /\ UNCHANGED <<now, models, mu, seen, history, frontEnd>>

\* A failure path that returns without the deferred Unlock.
FetchFailHoldsLock(p) ==
    /\ pc[p] = "fetching"
    /\ Return(p)
    /\ UNCHANGED <<now, cacheState, mu, frontEnd>>

\* models.Fetch returns an error: get returns nil and the error.
FetchFail(p) ==
    /\ pc[p] = "fetching"
    /\ \E e \in FetchErrors :
         /\ local' = [local EXCEPT ![p].err = e]
         /\ ret' = [ret EXCEPT ![p] = [entries |-> NilSlice, err |-> e]]
    /\ pc' = [pc EXCEPT ![p] = "unlock"]
    /\ UNCHANGED <<now, cacheState, mu, seen, history, frontEnd>>

\* c.models = fetched
StoreModels(p) ==
    /\ pc[p] = "store1"
    /\ models' = local[p].fetched
    /\ pc' = [pc EXCEPT ![p] = "store2"]
    /\ failedLast' = FALSE
    /\ local' = [q \in Callers |->
                    IF q = p THEN local[q] ELSE [local[q] EXCEPT !.afterFail = FALSE]]
    /\ UNCHANGED <<now, fetchedAt, mu, ret, seen, frontEnd>>
    /\ UNCHANGED <<nCalls, nFetch, delivered, stampedBy, sequential, log>>

\* c.fetchedAt = time.Now(); return c.models, nil
StoreFetchedAt(p) ==
    /\ pc[p] = "store2"
    /\ fetchedAt' = now
    /\ ret' = [ret EXCEPT ![p] = [entries |-> models, err |-> NoErr]]
    /\ pc' = [pc EXCEPT ![p] = "unlock"]
    /\ stampedBy' = models.id
    /\ UNCHANGED <<now, models, mu, local, seen, frontEnd>>
    /\ UNCHANGED <<nCalls, nFetch, delivered, failedLast, sequential, log>>

\* The deferred c.mu.Unlock(), and the return.
Unlock(p) ==
    /\ pc[p] = "unlock"
    /\ mu' = [mu EXCEPT !.writer = NoOne]
    /\ Return(p)
    /\ UNCHANGED <<now, cacheState, frontEnd>>

\* Time passes.
Tick ==
    /\ now + TickMinutes <= MaxTime
    /\ now' = now + TickMinutes
    /\ UNCHANGED <<cacheState, mu, pc, local, ret, seen, history, frontEnd>>

Get(p) ==
    \/ Call(p)
    \/ RLock(p)
    \/ Check1(p)
    \/ RUnlockHit(p)
    \/ RUnlockStale(p)
    \/ LockAnnounce(p)
    \/ LockAcquire(p)
    \/ Check2(p)
    \/ FetchOK(p)
    \/ FetchFail(p)
    \/ StoreModels(p)
    \/ StoreFetchedAt(p)
    \/ Unlock(p)

Next == Tick \/ \E p \in Callers : Get(p)

Spec == Init /\ [][Next]_vars

\* One caller at a time: every get call returns before the next is made.
SeqInit == CacheInit /\ sequential = TRUE /\ FilterIdle /\ CallIdle

SeqNext == Tick \/ Get(1)

SeqSpec == SeqInit /\ [][SeqNext]_vars


(***************************************************************************)
(* Properties of modelCache.get                                            *)
(***************************************************************************)
\* The freshness a check found, spelled from what it read.
FoundFresh(o) == Len(o.entries.elems) > 0 /\ o.elapsed < cacheTTL

LastSeen(p) == seen[p][Len(seen[p])]

Returning(p) == pc[p] \in {"hit", "unlock"}

PastLastCheck(p) == pc[p] \in {"hit", "fetching", "store1", "store2", "unlock"}

InExclusive == {p \in Callers : pc[p] \in {"check2", "fetching", "store1", "store2", "unlock"}}

InReadSection == {p \in Callers : pc[p] \in {"check1", "hit", "runlock"}}

InFetch == {p \in Callers : pc[p] = "fetching"}

\* C1: a get call whose freshness check finds non-empty entries younger
\* than the 15-minute TTL makes no further check, returns the entries it
\* read and never calls the Fetcher; a get call whose deciding (last)
\* freshness check finds the entries empty or of age >= TTL, exactly the
\* TTL included, calls the Fetcher.  (A stale first check only leads to the
\* second check.)
C1_FreshnessDecides ==
    \A p \in Callers :
      /\ \A i \in DOMAIN seen[p] :
           FoundFresh(seen[p][i]) =>
             /\ i = Len(seen[p])
             /\ Returning(p)
             /\ local[p].calls = 0
             /\ ret[p] = [entries |-> seen[p][i].entries, err |-> NoErr]
      /\ (PastLastCheck(p) /\ ~FoundFresh(LastSeen(p))) => local[p].calls = 1

\* C1 witness: a call is leaving after its check saw entries aged exactly
\* the TTL and called the Fetcher, while the cache still holds entries.
C1_Witness ==
    \E p \in Callers :
      /\ pc[p] = "unlock"
      /\ LastSeen(p).elapsed = cacheTTL
      /\ Len(LastSeen(p).entries.elems) > 0
      /\ local[p].calls = 1

\* A call whose fetch failed is about to return nil and that error, and the
\* cache pair is the one its check read under the exclusive lock.
C2_FailureState ==
    \A p \in Callers :
      local[p].err # NoErr =>
        /\ pc[p] = "unlock"
        /\ ret[p] = [entries |-> NilSlice, err |-> local[p].err]
        /\ models = LastSeen(p).entries
        /\ fetchedAt = LastSeen(p).fetchedAt

\* The step in which such a call returns leaves the cache pair alone.
C2_FailureReturn ==
    \A p \in Callers :
      (local[p].err # NoErr /\ pc'[p] = "idle") => UNCHANGED cacheState

\* C2: when the Fetcher returns an error, get returns that error with nil
\* entries, and the cache pair is what the call found when it took the
\* exclusive lock, up to and including the step that returns: stale entries
\* are neither cleared nor returned.
C2_FetchErrorLeavesCache == []C2_FailureState /\ [][C2_FailureReturn]_vars

\* C2 witness: a call is returning a fetch error while the cache holds
\* previously fetched, now stale entries.
C2_Witness ==
    \E p \in Callers :
      /\ pc[p] = "unlock"
      /\ ret[p].err = "context canceled"
      /\ Len(models.elems) > 0
      /\ Since(fetchedAt) >= cacheTTL

\* The cache pair changes only in steps of the holder of the exclusive lock
\* whose fetch succeeded.
C3_OnlyRefreshWrites ==
    cacheState' # cacheState =>
      \E p \in Callers :
        /\ mu.writer = p
        /\ pc[p] \in {"store1", "store2"}
        /\ local[p].err = NoErr
        /\ local[p].fetched \in delivered
        /\ models' = local[p].fetched

\* Every check reads a pair written by one refresh, or the initial pair.
C3_NoTornRead ==
    \A p \in Callers :
      /\ \A i \in DOMAIN seen[p] :
           /\ seen[p][i].entries.id = seen[p][i].stampedBy
           /\ seen[p][i].entries.id = 0 <=> seen[p][i].fetchedAt = ZeroTime
      /\ (Returning(p) /\ ret[p].err = NoErr) => ret[p].entries \in delivered

\* C3: the pair (entries, fetchedAt) changes only in steps of the caller
\* that holds the exclusive lock after a successful fetch, entries becoming
\* the slice that fetch delivered; every freshness check reads entries and
\* a fetchedAt written by the same refresh (or the initial pair); every
\* get that returns entries returns a slice delivered by one fetch.
C3_AtomicPair == []C3_NoTornRead /\ [][C3_OnlyRefreshWrites]_vars

\* C3 witness: the second refresh has written the entries but not yet
\* fetchedAt, and another caller is at the read lock, kept out.
C3_Witness ==
    \E p, q \in Callers :
      /\ pc[p] = "store2"
      /\ models.id = 2
      /\ stampedBy = 1
      /\ pc[q] = "rlock"

\* C4: at most one caller is inside the exclusive section, at most one
\* Fetcher call is in flight, and no caller is inside its read-locked check
\* while a caller is inside the exclusive section.
C4_MutualExclusion ==
    /\ Cardinality(InExclusive) <= 1
    /\ Cardinality(InFetch) <= 1
    /\ InExclusive # {} => InReadSection = {}

\* C4 witness: one caller's Fetcher call is in flight while another caller,
\* whose first check was stale too, waits for the exclusive lock.
C4_Witness ==
    \E p, q \in Callers :
      /\ pc[p] = "fetching"
      /\ pc[q] = "lock"

\* C5 as claimed: from an empty cache, for any catalog of the first
\* successful fetch, a second sequential get whose check comes less than
\* the TTL after it makes the total number of Fetcher calls exactly one.
C5_AnyCatalog ==
    (/\ Len(log) >= 2
     /\ log[1].err = NoErr
     /\ log[2].elapsed < cacheTTL) => log[2].fetches = 1

\* C5 amended: the same, provided the first fetch delivered a non-empty
\* catalog; a third get whose check comes at the TTL or later then issues
\* the second Fetcher call.
C5_NonEmptyCatalog ==
    (/\ Len(log) >= 2
     /\ log[1].err = NoErr
     /\ Len(log[1].entries.elems) > 0
     /\ log[2].elapsed < cacheTTL) =>
        /\ log[1].fetches = 1
        /\ log[2].fetches = 1
        /\ log[2].entries = log[1].entries
        /\ (Len(log) >= 3 /\ log[3].elapsed >= cacheTTL) => log[3].fetches = 2

\* C5 witness: three sequential calls, the third exactly one TTL after the
\* first call's fetch.
C5_Witness ==
    /\ Len(log) = 3
    /\ log[1].err = NoErr
    /\ Len(log[1].entries.elems) > 0
    /\ log[2].elapsed < cacheTTL
    /\ log[2].elapsed > 0
    /\ log[3].elapsed = cacheTTL
    /\ log[3].fetches = 2

\* C6: one get call issues at most one Fetcher call; and a get call made
\* after a get returned a fetch error, with no refresh by another caller
\* since, is never served from the cache: it calls the Fetcher, and the
\* entries it returns, if any, are those its own fetch delivered.
C6_NoRetryInsideGet ==
    \A p \in Callers :
      /\ local[p].calls <= 1
      /\ (local[p].afterFail /\ Returning(p)) =>
           /\ pc[p] = "unlock"
           /\ local[p].calls = 1
           /\ ret[p].err = NoErr => ret[p].entries = local[p].fetched

\* C6 witness: a call made after a failed refresh of a populated, stale
\* cache has fetched again and is returning.
C6_Witness ==
    \E p \in Callers :
      /\ local[p].afterFail
      /\ pc[p] = "unlock"
      /\ seen[p][1].entries.id > 0
      /\ local[p].calls = 1


(***************************************************************************)
(* Strings: the functions of package strings that the filter uses          *)
(***************************************************************************)
UpperCase ==
    <<"A", "B", "C", "D", "E", "F", "G", "H", "I", "J", "K", "L", "M",
      "N", "O", "P", "Q", "R", "S", "T", "U", "V", "W", "X", "Y", "Z">>

LowerCase ==
    <<"a", "b", "c", "d", "e", "f", "g", "h", "i", "j", "k", "l", "m",
      "n", "o", "p", "q", "r", "s", "t", "u", "v", "w", "x", "y", "z">>

toLowerChar(c) ==
    IF \E i \in DOMAIN UpperCase : UpperCase[i] = c
      THEN LowerCase[CHOOSE i \in DOMAIN UpperCase : UpperCase[i] = c]
      ELSE c

\* strings.ToLower
ToLower(s) == [i \in 1..Len(s) |-> toLowerChar(s[i])]

\* unicode.IsSpace, on the characters the inputs use
IsSpace(c) == c \in {" ", "\t", "\n", "\r"}

\* strings.Contains
Contains(s, substr) ==
    \E i \in 0..(Len(s) - Len(substr)) : SubSeq(s, i + 1, i + Len(substr)) = substr

\* strings.Join
RECURSIVE Join(_, _)
Join(elems, sep) ==
    IF Len(elems) = 0 THEN <<>>
    ELSE IF Len(elems) = 1 THEN elems[1]
    ELSE elems[1] \o sep \o Join(Tail(elems), sep)

\* strings.Fields: the scan that cuts s at every run of white space
RECURSIVE FieldsFrom(_, _, _, _)
FieldsFrom(s, i, word, acc) ==
    IF i > Len(s)
      THEN (IF word = <<>> THEN acc ELSE Append(acc, word))
    ELSE IF IsSpace(s[i])
      THEN FieldsFrom(s, i + 1, <<>>, IF word = <<>> THEN acc ELSE Append(acc, word))
    ELSE FieldsFrom(s, i + 1, Append(word, s[i]), acc)

Fields(s) == FieldsFrom(s, 1, <<>>, <<>>)

(***************************************************************************)
(* filterModels and matchesQuery                                           *)
(***************************************************************************)
\* A matcher that is content with any one word of the query.
matchesAnyWord(m, query) ==
    LET combined == ToLower(Join(<<m.ID, m.DisplayName, m.Description, m.OwnedBy>>,
                                 <<" ">>))
        words == Fields(query)
    IN  \E i \in DOMAIN words : Contains(combined, words[i])

\* A matcher that joins the fields with nothing between them.
matchesQueryUnseparated(m, query) ==
    LET combined == ToLower(Join(<<m.ID, m.DisplayName, m.Description, m.OwnedBy>>,
                                 <<>>))
        words == Fields(query)
    IN  \A i \in DOMAIN words : Contains(combined, words[i])

matchesQuery(m, query) ==
    LET combined == ToLower(Join(<<m.ID, m.DisplayName, m.Description, m.OwnedBy>>,
                                 <<" ">>))
        words == Fields(query)
    IN  \A i \in DOMAIN words : Contains(combined, words[i])

\* A loop body that keeps a model as soon as one criterion accepts it.
keepAny(m, query, ownedBy, modality) ==
    \/ query = <<>> /\ ownedBy = <<>> /\ modality = <<>>
    \/ query # <<>> /\ matchesQuery(m, query)
    \/ ownedBy # <<>> /\ ToLower(m.OwnedBy) = ownedBy
    \/ modality # <<>> /\ Contains(ToLower(m.Modality), modality)

\* A loop body that matches the owner as a substring.
keepOwnerSubstring(m, query, ownedBy, modality) ==
    /\ ~(query # <<>> /\ ~matchesQuery(m, query))
    /\ ~(ownedBy # <<>> /\ ~Contains(ToLower(m.OwnedBy), ownedBy))
    /\ ~(modality # <<>> /\ ~Contains(ToLower(m.Modality), modality))

\* A loop body that compares the owner even when no owner is asked for.
keepUnguarded(m, query, ownedBy, modality) ==
    /\ ~(query # <<>> /\ ~matchesQuery(m, query))
    /\ ~(ToLower(m.OwnedBy) # ownedBy)
    /\ ~(modality # <<>> /\ ~Contains(ToLower(m.Modality), modality))

\* The body of filterModels' loop: TRUE iff no `continue` is taken and the
\* model is appended to the result.
keep(m, query, ownedBy, modality) ==
    IF query # <<>> /\ ~matchesQuery(m, query) THEN FALSE
    ELSE IF ownedBy # <<>> /\ ToLower(m.OwnedBy) # ownedBy THEN FALSE
    ELSE IF modality # <<>> /\ ~Contains(ToLower(m.Modality), modality) THEN FALSE
    ELSE TRUE

\* A filter that deletes in place while it walks the slice: the model that
\* follows a dropped one slides into its place and is never examined.
RECURSIVE filterLoopInPlace(_, _, _, _, _, _)
filterLoopInPlace(all, i, query, ownedBy, modality, result) ==
    IF i > Len(all) THEN result
    ELSE IF keep(all[i], query, ownedBy, modality)
      THEN filterLoopInPlace(all, i + 1, query, ownedBy, modality,
                             Append(result, all[i]))
      ELSE filterLoopInPlace(all, i + 2, query, ownedBy, modality,
                             IF i + 1 <= Len(all)
                               THEN Append(result, all[i + 1])
                               ELSE result)

RECURSIVE filterLoop(_, _, _, _, _, _)
filterLoop(all, i, query, ownedBy, modality, result) ==
    IF i > Len(all) THEN result
    ELSE filterLoop(all, i + 1, query, ownedBy, modality,
                    IF keep(all[i], query, ownedBy, modality)
                      THEN Append(result, all[i])
                      ELSE result)

filterModels(all, args) ==
    filterLoop(all, 1, ToLower(args.Query), ToLower(args.OwnedBy),
               ToLower(args.Modality), <<>>)

(***************************************************************************)
(* Inputs of the filter                                                    *)
(***************************************************************************)
\* gpt-4o, as in sampleModels
Gpt4o ==
    [ID |->
        <<"g", "p", "t", "-", "4", "o">>,
     DisplayName |->
        <<"G", "P", "T", "-", "4", "o">>,
     Description |->
        <<"O", "p", "e", "n", "A", "I", "'", "s", " ", "f", "l", "a", "g",
          "s", "h", "i", "p", " ", "m", "u", "l", "t", "i", "m", "o", "d",
          "a", "l", " ", "m", "o", "d", "e", "l">>,
     OwnedBy |->
        <<"O", "p", "e", "n", "A", "I">>,
     Modality |->
        <<"t", "e", "x", "t", ",", "i", "m", "a", "g", "e", "-", ">", "t",
          "e", "x", "t">>]

\* dall-e-3, as in sampleModels
DallE3 ==
    [ID |->
        <<"d", "a", "l", "l", "-", "e", "-", "3">>,
     DisplayName |->
        <<"D", "A", "L", "L", "-", "E", " ", "3">>,
     Description |->
        <<"O", "p", "e", "n", "A", "I", "'", "s", " ", "i", "m", "a", "g",
          "e", " ", "g", "e", "n", "e", "r", "a", "t", "i", "o", "n", " ",
          "m", "o", "d", "e", "l">>,
     OwnedBy |->
        <<"O", "p", "e", "n", "A", "I">>,
     Modality |->
        <<"t", "e", "x", "t", "-", ">", "i", "m", "a", "g", "e">>]

\* gemini-2.5-pro, as in sampleModels
Gemini ==
    [ID |->
        <<"g", "e", "m", "i", "n", "i", "-", "2", ".", "5", "-", "p", "r",
          "o">>,
     DisplayName |->
        <<"G", "e", "m", "i", "n", "i", " ", "2", ".", "5", " ", "P", "r",
          "o">>,
     Description |->
        <<"G", "o", "o", "g", "l", "e", "'", "s", " ", "a", "d", "v", "a",
          "n", "c", "e", "d", " ", "m", "o", "d", "e", "l", " ", "w", "i",
          "t", "h", " ", "r", "e", "a", "s", "o", "n", "i", "n", "g">>,
     OwnedBy |->
        <<"G", "o", "o", "g", "l", "e">>,
     Modality |->
        <<"t", "e", "x", "t", ",", "i", "m", "a", "g", "e", ",", "v", "i",
          "d", "e", "o", "-", ">", "t", "e", "x", "t">>]

\* a model with empty optional fields, whose id and display name spell
\* "image" only across the field boundary and whose owner is a prefix of OpenAI
Bare ==
    [ID |->
        <<"i", "m">>,
     DisplayName |->
        <<"a", "g", "e">>,
     Description |->
        <<>>,
     OwnedBy |->
        <<"O", "p", "e", "n">>,
     Modality |->
        <<>>]

\* a model with upper-case modality, lower-case owner and a tab in its text
Shouting ==
    [ID |->
        <<"x">>,
     DisplayName |->
        <<>>,
     Description |->
        <<"I", "m", "a", "g", "e", "\t", "G", "P", "T">>,
     OwnedBy |->
        <<"o", "p", "e", "n", "a", "i">>,
     Modality |->
        <<"T", "E", "X", "T", "-", ">", "I", "M", "A", "G", "E">>]

ModelPool == {Gpt4o, DallE3, Gemini, Bare, Shouting}

QueryInputs ==
    {<<>>,
     <<" ", "\t">>,
     <<"g", "p", "t">>,
     <<"G", "P", "T", " ", "4", "o">>,
     <<"o", "p", "e", "n", "a", "i", " ", "i", "m", "a", "g", "e">>,
     <<"g", "o", "o", "g", "l", "e", " ", "c", "o", "d", "e", "x">>,
     <<"i", "m", "a", "g", "e", "\t", "O", "P", "E", "N", "A", "I", " ">>,
     <<"a", "g", "e", " ", "i", "m">>}

OwnerInputs ==
    {<<>>,
     <<"O", "p", "e", "n", "A", "I">>,
     <<"o", "p", "e", "n", "a", "i">>,
     <<"O", "p", "e", "n">>,
     <<" ">>}

ModalityInputs ==
    {<<>>,
     <<"i", "m", "a", "g", "e">>,
     <<"T", "e", "x", "t">>,
     <<"v", "i", "d", "e", "o">>}

ArgInputs == [Query : QueryInputs, OwnedBy : OwnerInputs, Modality : ModalityInputs]

CatalogInputs == UNION {[1..n -> ModelPool] : n \in 0..MaxCatalogLen}

FilterInit ==
    /\ CacheInit
    /\ sequential = FALSE
    /\ fAll \in CatalogInputs
    /\ fArgs \in ArgInputs
    /\ fResult = <<>>
    /\ fpc = "ready"
    /\ CallIdle

\* A front-end calls filterModels on a catalog.
Filter ==
    /\ fpc = "ready"
    /\ fResult' = filterModels(fAll, fArgs)
    /\ fpc' = "done"
    /\ UNCHANGED <<fAll, fArgs, callVars>>
    /\ UNCHANGED <<now, cacheState, mu, pc, local, ret, seen, history>>

FilterNext == Filter

FilterSpec == FilterInit /\ [][FilterNext]_vars

(***************************************************************************)
(* Properties of filterModels                                              *)
(***************************************************************************)
Members(seq) == {seq[i] : i \in DOMAIN seq}

NoCriteria == [Query |-> <<>>, OwnedBy |-> <<>>, Modality |-> <<>>]

OnlyQuery(args) == [NoCriteria EXCEPT !.Query = args.Query]

OnlyOwner(args) == [NoCriteria EXCEPT !.OwnedBy = args.OwnedBy]

OnlyModality(args) == [NoCriteria EXCEPT !.Modality = args.Modality]

\* a and b are the same string up to the case of their letters
SameIgnoringCase(a, b) ==
    /\ Len(a) = Len(b)
    /\ \A i \in DOMAIN a : toLowerChar(a[i]) = toLowerChar(b[i])

\* c occurs somewhere in s, up to the case of the letters
OccursIgnoringCase(s, c) ==
    \E off \in 0..(Len(s) - Len(c)) :
      \A k \in DOMAIN c : toLowerChar(s[off + k]) = toLowerChar(c[k])

\* The white-space separated words of s: its maximal runs without white space.
WordsOf(s) ==
    {SubSeq(s, r[1], r[2]) :
       r \in {x \in (DOMAIN s) \X (DOMAIN s) :
                /\ x[1] <= x[2]
                /\ \A k \in x[1]..x[2] : ~IsSpace(s[k])
                /\ x[1] = 1 \/ IsSpace(s[x[1] - 1])
                /\ x[2] = Len(s) \/ IsSpace(s[x[2] + 1])}}

\* id, displayName, description and ownedBy joined with single spaces
SearchText(m) ==
    m.ID \o <<" ">> \o m.DisplayName \o <<" ">> \o m.Description \o <<" ">> \o m.OwnedBy

QueryWanted(m, q) == \A w \in WordsOf(q) : OccursIgnoringCase(SearchText(m), w)

OwnerWanted(m, o) == SameIgnoringCase(m.OwnedBy, o)

ModalityWanted(m, c) == OccursIgnoringCase(m.Modality, c)

\* The model satisfies every criterion that is not empty.
Wanted(m, args) ==
    /\ args.Query = <<>> \/ QueryWanted(m, args.Query)
    /\ args.OwnedBy = <<>> \/ OwnerWanted(m, args.OwnedBy)
    /\ args.Modality = <<>> \/ ModalityWanted(m, args.Modality)

\* C7: filterModels returns exactly the models that satisfy every non-empty
\* criterion at once, as the subsequence of the catalog in catalog order;
\* the members of the result are the intersection of the results of
\* filtering by each criterion alone.
C7_AndOfCriteria ==
    fpc = "done" =>
      /\ fResult = SelectSeq(fAll, LAMBDA m : Wanted(m, fArgs))
      /\ Members(fResult) =
           (Members(filterModels(fAll, OnlyQuery(fArgs)))
              \cap Members(filterModels(fAll, OnlyOwner(fArgs))))
              \cap Members(filterModels(fAll, OnlyModality(fArgs)))

\* C7 witness: owner and modality are both asked for, each alone keeps a
\* different part of a two-model catalog, and one model passes both.
C7_Witness ==
    /\ fpc = "done"
    /\ fArgs.OwnedBy # <<>>
    /\ fArgs.Modality # <<>>
    /\ Len(fAll) = 2
    /\ Len(fResult) = 1
    /\ filterModels(fAll, OnlyOwner(fArgs)) # filterModels(fAll, OnlyModality(fArgs))

\* C8: with only a query given, a model is kept iff every white-space
\* separated word of the query occurs, case ignored, in the text made of
\* id, displayName, description and ownedBy joined by single spaces; a
\* query of white space only keeps every model, as the empty query does.
C8_EveryQueryWord ==
    (fpc = "done" /\ fArgs.OwnedBy = <<>> /\ fArgs.Modality = <<>>) =>
      /\ \A i \in DOMAIN fAll :
           fAll[i] \in Members(fResult) <=> QueryWanted(fAll[i], fArgs.Query)
      /\ (\A i \in DOMAIN fArgs.Query : IsSpace(fArgs.Query[i])) =>
           /\ fResult = fAll
           /\ fResult = filterModels(fAll, NoCriteria)

\* C8 witness: a query of two words keeps one model of two, the model
\* whose fields hold both words.
C8_Witness ==
    /\ fpc = "done"
    /\ fArgs.OwnedBy = <<>>
    /\ fArgs.Modality = <<>>
    /\ Cardinality(WordsOf(fArgs.Query)) = 2
    /\ Len(fAll) = 2
    /\ Len(fResult) = 1

\* C9: with only an owner given, a model is kept iff its ownedBy equals the
\* criterion over the whole string, case ignored; criteria that differ only
\* in the case of their letters give the same result.
C9_OwnerEquality ==
    (fpc = "done" /\ fArgs.Query = <<>> /\ fArgs.Modality = <<>>
       /\ fArgs.OwnedBy # <<>>) =>
      /\ \A i \in DOMAIN fAll :
           fAll[i] \in Members(fResult) <=> OwnerWanted(fAll[i], fArgs.OwnedBy)
      /\ \A o \in OwnerInputs :
           SameIgnoringCase(o, fArgs.OwnedBy) =>
             filterModels(fAll, [fArgs EXCEPT !.OwnedBy = o]) = fResult

\* C9 witness: the criterion "Open" drops the model owned by OpenAI and
\* keeps the model owned by Open.
C9_Witness ==
    /\ fpc = "done"
    /\ fArgs = [NoCriteria EXCEPT !.OwnedBy = <<"O", "p", "e", "n">>]
    /\ fAll = <<Gpt4o, Bare>>
    /\ fResult = <<Bare>>

\* C10: with the three criteria empty the result is the catalog itself,
\* same models, same order, same length, the empty catalog included.
C10_NoCriteriaIdentity ==
    (fpc = "done" /\ fArgs = NoCriteria) => fResult = fAll

\* C10 witness: a catalog of two different models went through unfiltered.
C10_Witness ==
    /\ fpc = "done"
    /\ fArgs = NoCriteria
    /\ Len(fAll) = 2
    /\ fAll[1] # fAll[2]
    /\ fResult = fAll

\* C11: filtering is idempotent: filtering the result of filterModels again
\* with the same criteria gives that result back, same models, same order.
C11_Idempotent ==
    fpc = "done" => filterModels(fResult, fArgs) = fResult

\* C11 witness: some criterion is set, the catalog held two models, one was
\* dropped and one kept, so the second pass runs over a shorter sequence.
C11_Witness ==
    /\ fpc = "done"
    /\ fArgs # NoCriteria
    /\ Len(fAll) = 2
    /\ Len(fResult) = 1
    /\ filterModels(fResult, fArgs) = fResult

\* The cache as a freshness check reads it: non-empty entries stamped less
\* than the TTL ago.
StoredFresh ==
    /\ Len(models.elems) > 0
    /\ fetchedAt # ZeroTime
    /\ now - fetchedAt < cacheTTL

WriterPcs == {"lockwait", "check2", "fetching", "store1", "store2", "unlock"}

\* C18: a get call that found the cache stale under the read lock and takes
\* the write lock after another call's refresh has stored and stamped a
\* non-empty catalog less than 15 minutes ago returns those entries, leaves
\* the cache as it is and does not call the Fetcher.
C18_DoubleCheck ==
    [][\A p \in Callers :
         (/\ pc[p] = "check2"
          /\ pc'[p] # "check2"
          /\ ~FoundFresh(seen[p][1])
          /\ StoredFresh
          /\ stampedBy = models.id)
         => /\ pc'[p] = "unlock"
            /\ ret'[p] = [entries |-> models, err |-> NoErr]
            /\ local'[p].calls = 0
            /\ nFetch' = nFetch
            /\ UNCHANGED cacheState]_vars

\* C18 witness: a call that read an empty cache under the read lock is
\* leaving the write lock with the entries another call fetched meanwhile,
\* after one Fetcher call in all, which it did not make.
C18_Witness ==
    \E p \in Callers :
      /\ pc[p] = "unlock"
      /\ Len(seen[p]) = 2
      /\ ~FoundFresh(seen[p][1])
      /\ FoundFresh(seen[p][2])
      /\ seen[p][2].entries.id # seen[p][1].entries.id
      /\ ret[p].entries = models
      /\ local[p].calls = 0
      /\ nFetch = 1

\* C19 as claimed: a call that found the cache stale, and takes the write
\* lock after another call's refresh has stored a fresh non-empty catalog,
\* starts a Fetcher call of its own.
C19_DuplicateFetch ==
    \A p \in Callers :
      (/\ Len(seen[p]) = 2
       /\ ~FoundFresh(seen[p][1])
       /\ FoundFresh(seen[p][2])
       /\ seen[p][2].entries.id # seen[p][1].entries.id)
      => local[p].calls = 1

\* C19: no Fetcher call is started while the cache holds a non-empty catalog
\* younger than the TTL, and Fetcher calls never overlap: a second Fetcher
\* call in one staleness episode is started only when the first fetch
\* failed, delivered an empty catalog, or the TTL ran out before the second
\* check.
C19_NoFetchWhileFresh ==
    /\ [](Cardinality(InFetch) <= 1)
    /\ [][\A p \in Callers :
            (pc'[p] = "fetching" /\ pc[p] # "fetching") => ~StoredFresh]_vars

\* C19 witness: two calls were under way together on the empty cache; the
\* first one's fetch failed, and the second one, at the same instant, is
\* inside the second Fetcher call.
C19_Witness ==
    \E p \in Callers :
      /\ pc[p] = "fetching"
      /\ ~local[p].afterFail
      /\ failedLast
      /\ nCalls = 2
      /\ nFetch = 2
      /\ now = 0

\* The calls whose refresh is in flight: inside the Fetcher call, or storing
\* and returning what it delivered.
Refreshing ==
    {q \in Callers :
       \/ pc[q] \in {"fetching", "store1", "store2"}
       \/ pc[q] = "unlock" /\ local[q].calls = 1}

\* C20 as claimed: a reader of a fresh cache waits for the lock only while
\* the refresh of some call is in flight.
C20_WaitOnlyDuringFetch ==
    \A p \in Callers :
      (pc[p] = "rlock" /\ ~RLockGranted /\ isFresh) => Refreshing # {}

\* C20: a reader waits for the lock only while another call holds the write
\* lock (second check, Fetcher call or store) or is waiting for it; when no
\* call holds or awaits the write lock the read lock is granted, however
\* many calls hold it already.
C20_ReadersWaitOnlyForWriter ==
    /\ \A p \in Callers :
         (pc[p] = "rlock" /\ ~RLockGranted) =>
           \E q \in Callers \ {p} : pc[q] \in WriterPcs
    /\ (\A q \in Callers : pc[q] \notin WriterPcs) => RLockGranted

\* C20 witness: the cache is fresh, one call holds the read lock, no call
\* holds or awaits the write lock, and a second call is at RLock, which is
\* granted.
C20_Witness ==
    \E p, q \in Callers :
      /\ p # q
      /\ isFresh
      /\ pc[p] = "hit"
      /\ pc[q] = "rlock"
      /\ mu.readers = {p}
      /\ RLockGranted

(***************************************************************************)
(* formatModel and formatModels                                            *)
(***************************************************************************)
\* The literal texts of the format strings.
HeaderLabel ==
    <<"#", "#", " ">>
DisplayNameLabel ==
    <<"D", "i", "s", "p", "l", "a", "y", " ", "N", "a", "m", "e", ":", " ">>
OwnerLabel ==
    <<"O", "w", "n", "e", "r", ":", " ">>
ModalityLabel ==
    <<"M", "o", "d", "a", "l", "i", "t", "y", ":", " ">>
DescriptionLabel ==
    <<"D", "e", "s", "c", "r", "i", "p", "t", "i", "o", "n", ":", " ">>
ContextLengthLabel ==
    <<"C", "o", "n", "t", "e", "x", "t", " ", "L", "e", "n", "g", "t", "h",
      ":", " ">>
TokensText ==
    <<" ", "t", "o", "k", "e", "n", "s">>
MaxOutputLabel ==
    <<"M", "a", "x", " ", "O", "u", "t", "p", "u", "t", ":", " ">>
PricingLabel ==
    <<"P", "r", "i", "c", "i", "n", "g", ":">>
PromptKey ==
    <<" ", "p", "r", "o", "m", "p", "t", "=">>
CompletionKey ==
    <<" ", "c", "o", "m", "p", "l", "e", "t", "i", "o", "n", "=">>
RequestKey ==
    <<" ", "r", "e", "q", "u", "e", "s", "t", "=">>
ImageKey ==
    <<" ", "i", "m", "a", "g", "e", "=">>
FoundText ==
    <<"F", "o", "u", "n", "d", " ">>
ModelsText ==
    <<" ", "m", "o", "d", "e", "l", "(", "s", ")", ":">>

\* A nil pointer, a pointer to v, and the value a pointer points to.
Nil == <<>>
Ptr(v) == <<v>>
Deref(p) == p[1]

Digits == <<"0", "1", "2", "3", "4", "5", "6", "7", "8", "9">>

\* fmt's %d
RECURSIVE FormatInt(_)
FormatInt(n) ==
    IF n < 0 THEN <<"-">> \o FormatInt(0 - n)
    ELSE IF n < 10 THEN <<Digits[n + 1]>>
    ELSE FormatInt(n \div 10) \o <<Digits[(n % 10) + 1]>>

\* A rendering that leaves the owner line out when the owner is empty.
formatModelOwnerOptional(m) ==
    LET cw == m.ContextWindow
        pr == m.Pricing
    IN  HeaderLabel \o m.ID \o <<"\n">>
        \o (IF m.DisplayName # <<>> /\ m.DisplayName # m.ID
              THEN DisplayNameLabel \o m.DisplayName \o <<"\n">>
              ELSE <<>>)
        \o (IF m.OwnedBy # <<>>
              THEN OwnerLabel \o m.OwnedBy \o <<"\n">>
              ELSE <<>>)
        \o (IF m.Modality # <<>>
              THEN ModalityLabel \o m.Modality \o <<"\n">>
              ELSE <<>>)
        \o (IF m.Description # <<>>
              THEN DescriptionLabel \o m.Description \o <<"\n">>
              ELSE <<>>)
        \o (IF cw # Nil
              THEN ContextLengthLabel \o FormatInt(Deref(cw).ContextLength)
                   \o TokensText \o <<"\n">>
                   \o (IF Deref(cw).MaxOutputTokens # Nil
                         THEN MaxOutputLabel
                              \o FormatInt(Deref(Deref(cw).MaxOutputTokens))
                              \o TokensText \o <<"\n">>
                         ELSE <<>>)
              ELSE <<>>)
        \o (IF pr # Nil
              THEN PricingLabel
                   \o (IF Deref(pr).Prompt # Nil
                         THEN PromptKey \o Deref(Deref(pr).Prompt) ELSE <<>>)
                   \o (IF Deref(pr).Completion # Nil
                         THEN CompletionKey \o Deref(Deref(pr).Completion)
                         ELSE <<>>)
                   \o (IF Deref(pr).Request # Nil
                         THEN RequestKey \o Deref(Deref(pr).Request) ELSE <<>>)
                   \o (IF Deref(pr).Image # Nil
                         THEN ImageKey \o Deref(Deref(pr).Image) ELSE <<>>)
                   \o <<"\n">>
              ELSE <<>>)

\* formatModel: the text block of one model.
formatModel(m) ==
    LET cw == m.ContextWindow
        pr == m.Pricing
    IN  HeaderLabel \o m.ID \o <<"\n">>
        \o (IF m.DisplayName # <<>> /\ m.DisplayName # m.ID
              THEN DisplayNameLabel \o m.DisplayName \o <<"\n">>
              ELSE <<>>)
        \o OwnerLabel \o m.OwnedBy \o <<"\n">>
        \o (IF m.Modality # <<>>
              THEN ModalityLabel \o m.Modality \o <<"\n">>
              ELSE <<>>)
        \o (IF m.Description # <<>>
              THEN DescriptionLabel \o m.Description \o <<"\n">>
              ELSE <<>>)
        \o (IF cw # Nil
              THEN ContextLengthLabel \o FormatInt(Deref(cw).ContextLength)
                   \o TokensText \o <<"\n">>
                   \o (IF Deref(cw).MaxOutputTokens # Nil
                         THEN MaxOutputLabel
                              \o FormatInt(Deref(Deref(cw).MaxOutputTokens))
                              \o TokensText \o <<"\n">>
                         ELSE <<>>)
              ELSE <<>>)
        \o (IF pr # Nil
              THEN PricingLabel
                   \o (IF Deref(pr).Prompt # Nil
                         THEN PromptKey \o Deref(Deref(pr).Prompt) ELSE <<>>)
                   \o (IF Deref(pr).Completion # Nil
                         THEN CompletionKey \o Deref(Deref(pr).Completion)
                         ELSE <<>>)
                   \o (IF Deref(pr).Request # Nil
                         THEN RequestKey \o Deref(Deref(pr).Request) ELSE <<>>)
                   \o (IF Deref(pr).Image # Nil
                         THEN ImageKey \o Deref(Deref(pr).Image) ELSE <<>>)
                   \o <<"\n">>
              ELSE <<>>)

\* The loop of formatModels from the i-th model on.
RECURSIVE formatBlocks(_, _)
formatBlocks(matched, i) ==
    IF i > Len(matched) THEN <<>>
    ELSE (IF i > 1 THEN <<"\n">> ELSE <<>>)
         \o formatModel(matched[i]) \o formatBlocks(matched, i + 1)

\* A rendering that writes the blocks one right after the other.
RECURSIVE formatBlocksNoGap(_, _)
formatBlocksNoGap(matched, i) ==
    IF i > Len(matched) THEN <<>>
    ELSE formatModel(matched[i]) \o formatBlocksNoGap(matched, i + 1)

formatModelsNoGap(matched) ==
    FoundText \o FormatInt(Len(matched)) \o ModelsText \o <<"\n", "\n">>
      \o formatBlocksNoGap(matched, 1)

\* formatModels: the count header and the blocks of the models.
formatModels(matched) ==
    FoundText \o FormatInt(Len(matched)) \o ModelsText \o <<"\n", "\n">>
      \o formatBlocks(matched, 1)

(***************************************************************************)
(* Inputs of the rendering                                                 *)
(***************************************************************************)
\* gpt-4o of sampleModels with its context window and pricing
FullGpt4o ==
    Gpt4o @@
    [ContextWindow |->
        Ptr([ContextLength |-> 128000, MaxOutputTokens |-> Ptr(16384)]),
     Pricing |->
        Ptr([Prompt |-> Ptr(<<"0", ".", "0", "0", "0", "0", "0", "5">>),
             Completion |-> Ptr(<<"0", ".", "0", "0", "0", "0", "1", "5">>),
             Request |-> Nil,
             Image |-> Nil])]

\* dall-e-3 of sampleModels: no context window, image pricing only
FullDallE3 ==
    DallE3 @@
    [ContextWindow |-> Nil,
     Pricing |->
        Ptr([Prompt |-> Nil, Completion |-> Nil, Request |-> Nil,
             Image |-> Ptr(<<"0", ".", "0", "4">>)])]

\* the model of TestFormatModelMinimal
Minimal ==
    [ID |-> <<"t", "e", "s", "t", "-", "m", "o", "d", "e", "l">>,
     DisplayName |-> <<>>,
     Description |-> <<>>,
     OwnedBy |-> <<"T", "e", "s", "t", "O", "r", "g">>,
     Modality |-> <<>>,
     ContextWindow |-> Nil,
     Pricing |-> Nil]

FormatSamples == {FullGpt4o, FullDallE3, Minimal}

PriceInputs == {Nil, Ptr(<<>>), Ptr(<<"0", ".", "0", "0", "0", "0", "0", "5">>)}

PricingInputs ==
    {Nil} \cup
    {Ptr(p) : p \in [Prompt : PriceInputs, Completion : PriceInputs,
                     Request : PriceInputs, Image : PriceInputs]}

ContextWindowInputs ==
    {Nil,
     Ptr([ContextLength |-> 0, MaxOutputTokens |-> Nil]),
     Ptr([ContextLength |-> 128000, MaxOutputTokens |-> Nil]),
     Ptr([ContextLength |-> 128000, MaxOutputTokens |-> Ptr(16384)])}

\* Every combination of present and absent fields, on one id.
FormatPool ==
    [ID : {Gpt4o.ID},
     DisplayName : {<<>>, Gpt4o.ID, Gpt4o.DisplayName},
     Description : {<<>>, DallE3.Description},
     OwnedBy : {<<>>, Gpt4o.OwnedBy},
     Modality : {<<>>, Gpt4o.Modality},
     ContextWindow : ContextWindowInputs,
     Pricing : PricingInputs]

FormatLists == UNION {[1..n -> FormatSamples] : n \in 0..MaxCatalogLen}

FormatInputs ==
    {[op |-> "formatModel", matched |-> <<m>>] : m \in FormatPool}
      \cup {[op |-> "formatModels", matched |-> l] : l \in FormatLists}

FormatInit ==
    /\ CacheInit
    /\ sequential = FALSE
    /\ FilterIdle
    /\ req \in FormatInputs
    /\ resp = <<>>
    /\ rpc = "ready"

\* A caller renders one model.
FormatModel ==
    /\ rpc = "ready"
    /\ req.op = "formatModel"
    /\ resp' = formatModel(req.matched[1])
    /\ rpc' = "done"
    /\ UNCHANGED <<req, filterVars>>
    /\ UNCHANGED <<now, cacheState, mu, pc, local, ret, seen, history>>

\* A front-end renders the matches.
FormatModels ==
    /\ rpc = "ready"
    /\ req.op = "formatModels"
    /\ resp' = formatModels(req.matched)
    /\ rpc' = "done"
    /\ UNCHANGED <<req, filterVars>>
    /\ UNCHANGED <<now, cacheState, mu, pc, local, ret, seen, history>>

FormatNext == FormatModel \/ FormatModels

FormatSpec == FormatInit /\ [][FormatNext]_vars

(***************************************************************************)
(* Properties of the rendering                                             *)
(***************************************************************************)
\* The lines of a text: what stands before each line feed, and what is left
\* after the last one if anything is.
Lines(text) ==
    LET feeds == {i \in DOMAIN text : text[i] = "\n"}
        feed(k) == IF k = 0 THEN 0
                   ELSE CHOOSE i \in feeds :
                          Cardinality({j \in feeds : j <= i}) = k
        n == Cardinality(feeds)
        whole == [k \in 1..n |-> SubSeq(text, feed(k - 1) + 1, feed(k) - 1)]
    IN  IF feed(n) = Len(text) THEN whole
        ELSE Append(whole, SubSeq(text, feed(n) + 1, Len(text)))

RECURSIVE Concat(_)
Concat(ss) == IF ss = <<>> THEN <<>> ELSE Head(ss) \o Concat(Tail(ss))

\* The kinds of line of a model block, in the order of the block.
LineKinds ==
    <<"header", "displayName", "owner", "modality", "description",
      "contextLength", "maxOutput", "pricing">>

\* Whether the block of m has a line of kind k.
HasLine(m, k) ==
    CASE k = "header" -> TRUE
      [] k = "displayName" -> m.DisplayName # <<>> /\ m.DisplayName # m.ID
      [] k = "owner" -> TRUE
      [] k = "modality" -> m.Modality # <<>>
      [] k = "description" -> m.Description # <<>>
      [] k = "contextLength" -> m.ContextWindow # Nil
      [] k = "maxOutput" ->
           /\ m.ContextWindow # Nil
           /\ Deref(m.ContextWindow).MaxOutputTokens # Nil
      [] k = "pricing" -> m.Pricing # Nil

\* The sub-fields of a pricing record that are present, in the order
\* prompt, completion, request, image, each as its key and its value.
PricingItems(p) ==
    LET fields == <<[key |-> PromptKey, v |-> p.Prompt],
                    [key |-> CompletionKey, v |-> p.Completion],
                    [key |-> RequestKey, v |-> p.Request],
                    [key |-> ImageKey, v |-> p.Image]>>
        present == SelectSeq(fields, LAMBDA f : f.v # Nil)
    IN  [i \in DOMAIN present |->
           present[i].key \o Deref(present[i].v)]

\* The line of kind k in the block of m.
LineOf(m, k) ==
    CASE k = "header" -> HeaderLabel \o m.ID
      [] k = "displayName" -> DisplayNameLabel \o m.DisplayName
      [] k = "owner" -> OwnerLabel \o m.OwnedBy
      [] k = "modality" -> ModalityLabel \o m.Modality
      [] k = "description" -> DescriptionLabel \o m.Description
      [] k = "contextLength" ->
           ContextLengthLabel
             \o FormatInt(Deref(m.ContextWindow).ContextLength) \o TokensText
      [] k = "maxOutput" ->
           MaxOutputLabel
             \o FormatInt(Deref(Deref(m.ContextWindow).MaxOutputTokens))
             \o TokensText
      [] k = "pricing" ->
           PricingLabel \o Concat(PricingItems(Deref(m.Pricing)))

\* The lines the block of m is to have.
BlockLines(m) ==
    LET kinds == SelectSeq(LineKinds, LAMBDA k : HasLine(m, k))
    IN  [i \in DOMAIN kinds |-> LineOf(m, kinds[i])]

\* C12: formatModel emits its lines in one fixed order: the header with the
\* id; Display Name iff displayName is non-empty and differs from the id;
\* Owner always, also when empty; Modality iff non-empty; Description iff
\* non-empty; Context Length iff there is a context-window record, followed
\* by Max Output iff that record has a max-output field; one Pricing line
\* iff there is a pricing record, listing the sub-fields present in the
\* order prompt, completion, request, image.  Every line ends with a line
\* feed and there is no other line.
C12_LinesInFixedOrder ==
    (rpc = "done" /\ req.op = "formatModel") =>
      /\ Lines(resp) = BlockLines(req.matched[1])
      /\ resp[Len(resp)] = "\n"

\* C12 witness: a model with an empty owner, a display name equal to its
\* id, a context window without max output, and a pricing record that has
\* request and image but neither prompt nor completion was rendered in
\* four lines.
C12_Witness ==
    /\ rpc = "done"
    /\ req.op = "formatModel"
    /\ LET m == req.matched[1]
       IN  /\ m.OwnedBy = <<>>
           /\ m.DisplayName = m.ID
           /\ m.ContextWindow # Nil
           /\ Deref(m.ContextWindow).MaxOutputTokens = Nil
           /\ m.Pricing # Nil
           /\ Deref(m.Pricing).Prompt = Nil
           /\ Deref(m.Pricing).Completion = Nil
           /\ Deref(m.Pricing).Request # Nil
           /\ Deref(m.Pricing).Image # Nil
    /\ Len(Lines(resp)) = 4

\* The runs of lines between the empty lines of ls.
RECURSIVE BlocksFrom(_, _, _, _)
BlocksFrom(ls, i, cur, acc) ==
    IF i > Len(ls) THEN Append(acc, cur)
    ELSE IF ls[i] = <<>>
      THEN BlocksFrom(ls, i + 1, <<>>, Append(acc, cur))
    ELSE BlocksFrom(ls, i + 1, Append(cur, ls[i]), acc)

Blocks(ls) == IF ls = <<>> THEN <<>> ELSE BlocksFrom(ls, 1, <<>>, <<>>)

\* C13: formatModels on N models emits the header "Found N model(s):", an
\* empty line, and then N blocks, the i-th being the formatModel block of
\* the i-th model, with exactly one empty line between two consecutive
\* blocks; N is the number of blocks that follow the header.
C13_CountHeaderAndBlocks ==
    (rpc = "done" /\ req.op = "formatModels") =>
      LET ls == Lines(resp)
          n == Len(req.matched)
          blocks == Blocks(SubSeq(ls, 3, Len(ls)))
      IN  /\ Len(ls) >= 2
          /\ ls[1] = FoundText \o FormatInt(n) \o ModelsText
          /\ ls[2] = <<>>
          /\ Len(blocks) = n
          /\ \A i \in 1..n : blocks[i] = Lines(formatModel(req.matched[i]))
          /\ resp[Len(resp)] = "\n"

\* C13 witness: two different models were rendered, the second block
\* starting after the one empty line that follows the first.
C13_Witness ==
    /\ rpc = "done"
    /\ req.op = "formatModels"
    /\ Len(req.matched) = 2
    /\ req.matched[1] # req.matched[2]
    /\ LET ls == Lines(resp)
           k == Len(Lines(formatModel(req.matched[1])))
       IN  /\ ls[2 + k + 1] = <<>>
           /\ ls[2 + k + 2] = HeaderLabel \o req.matched[2].ID

(***************************************************************************)
(* The search_models tool                                                  *)
(***************************************************************************)
ErrorFetchingText ==
    <<"E", "r", "r", "o", "r", " ", "f", "e", "t", "c", "h", "i", "n", "g",
      " ", "m", "o", "d", "e", "l", "s", ":", " ">>

NoModelsText ==
    <<"N", "o", " ", "m", "o", "d", "e", "l", "s", " ", "f", "o", "u", "n",
      "d", " ", "m", "a", "t", "c", "h", "i", "n", "g", " ", "t", "h", "e",
      " ", "g", "i", "v", "e", "n", " ", "c", "r", "i", "t", "e", "r", "i",
      "a", ".">>

\* err.Error(), the text %v prints
ErrorText(e) ==
    CASE e = "network error" ->
           <<"n", "e", "t", "w", "o", "r", "k", " ", "e", "r", "r", "o", "r">>
      [] e = "context canceled" ->
           <<"c", "o", "n", "t", "e", "x", "t", " ", "c", "a", "n", "c",
             "e", "l", "e", "d">>

\* A handler that flags the empty match set as an error.
handleSearchModelsEmptyIsError(all, err, args) ==
    IF err # NoErr
      THEN [result |-> [IsError |-> TRUE,
                        Text |-> ErrorFetchingText \o ErrorText(err)],
            err |-> NoErr]
    ELSE LET matched == filterModels(all, args)
         IN  IF Len(matched) = 0
               THEN [result |-> [IsError |-> TRUE, Text |-> NoModelsText],
                     err |-> NoErr]
               ELSE [result |-> [IsError |-> FALSE,
                                 Text |-> formatModels(matched)],
                     err |-> NoErr]

\* handleSearchModels from the return of cache.get on: all and err are what
\* cache.get returned.  The value is the tool result and the Go error.
handleSearchModels(all, err, args) ==
    IF err # NoErr
      THEN [result |-> [IsError |-> TRUE,
                        Text |-> ErrorFetchingText \o ErrorText(err)],
            err |-> NoErr]
    ELSE LET matched == filterModels(all, args)
         IN  IF Len(matched) = 0
               THEN [result |-> [IsError |-> FALSE, Text |-> NoModelsText],
                     err |-> NoErr]
               ELSE [result |-> [IsError |-> FALSE,
                                 Text |-> formatModels(matched)],
                     err |-> NoErr]

\* The catalogs models.Fetch delivers to the tool.
ToolCatalogs == {<<>>, <<FullGpt4o>>, <<FullDallE3, FullGpt4o>>}

\* What a call of models.Fetch comes back with.
ToolFetchOutcomes ==
    {[catalog |-> c, err |-> NoErr] : c \in ToolCatalogs}
      \cup {[catalog |-> <<>>, err |-> e] : e \in FetchErrors}

\* The arguments of the tool calls: no criterion, an owner that matches, a
\* modality that matches one model, a query that matches none.
ToolArgs ==
    {NoCriteria,
     [NoCriteria EXCEPT !.OwnedBy = <<"o", "p", "e", "n", "a", "i">>],
     [NoCriteria EXCEPT !.Modality = <<"-", ">", "i", "m", "a", "g", "e">>],
     [NoCriteria EXCEPT !.Query = <<"c", "o", "d", "e", "x">>]}

ToolInit == Init

\* One search_models call, from the request to the result.  Tool calls are
\* taken one at a time here, so cache.get runs from its call to its return
\* with no other call in between: a fresh cache is returned as it is, a
\* stale one is refreshed with what models.Fetch comes back with.
HandleSearchModels ==
    /\ nCalls < MaxCalls
    /\ nCalls' = nCalls + 1
    /\ \E args \in ToolArgs, fetch \in ToolFetchOutcomes :
         LET slice == [id |-> Cardinality(delivered) + 1,
                       elems |-> fetch.catalog]
             got == IF isFresh THEN [all |-> models.elems, err |-> NoErr]
                    ELSE [all |-> fetch.catalog, err |-> fetch.err]
             out == handleSearchModels(got.all, got.err, args)
         IN  /\ IF isFresh
                  THEN UNCHANGED <<cacheState, nFetch, delivered, stampedBy,
                                   failedLast>>
                ELSE IF fetch.err # NoErr
                  THEN /\ failedLast' = TRUE
                       /\ nFetch' = nFetch + 1
                       /\ UNCHANGED <<cacheState, delivered, stampedBy>>
                ELSE /\ models' = slice
                     /\ fetchedAt' = now
                     /\ stampedBy' = slice.id
                     /\ delivered' = delivered \cup {slice}
                     /\ failedLast' = FALSE
                     /\ nFetch' = nFetch + 1
             /\ req' = [op |-> "search_models", args |-> args]
             /\ resp' = [got |-> got, result |-> out.result, err |-> out.err]
    /\ rpc' = "done"
    /\ UNCHANGED <<now, mu, pc, local, ret, seen, sequential, log, filterVars>>

ToolNext == Tick \/ HandleSearchModels

ToolSpec == ToolInit /\ [][ToolNext]_vars

HasPrefix(s, prefix) ==
    Len(s) >= Len(prefix) /\ SubSeq(s, 1, Len(prefix)) = prefix

\* C14: every search_models call ends in exactly one of three outcomes: an
\* error-flagged result with the text of the fetch error if cache.get
\* failed; a result that is not error-flagged, with the "no models found"
\* message, if cache.get succeeded and no model matches; a result that is
\* not error-flagged, with the formatted matches, otherwise.  The handler
\* returns no Go error in any of them.
C14_ThreeOutcomes ==
    (rpc = "done" /\ req.op = "search_models") =>
      LET got == resp.got
          r == resp.result
          matched == filterModels(got.all, req.args)
          failed == /\ r.IsError
                    /\ r.Text = ErrorFetchingText \o ErrorText(got.err)
          none == ~r.IsError /\ r.Text = NoModelsText
          found == ~r.IsError /\ r.Text = formatModels(matched)
      IN  /\ resp.err = NoErr
          /\ got.err # NoErr => failed /\ ~none /\ ~found
          /\ (got.err = NoErr /\ matched = <<>>) => none /\ ~failed /\ ~found
          /\ (got.err = NoErr /\ matched # <<>>) => found /\ ~failed /\ ~none
          /\ found => HasPrefix(r.Text, FoundText)

\* C14 witness: the cache delivered a catalog of two models without error,
\* the criteria match none of them, and the result is the "no models
\* found" message, not flagged as an error.
C14_Witness ==
    /\ rpc = "done"
    /\ req.op = "search_models"
    /\ resp.got.err = NoErr
    /\ Len(resp.got.all) = 2
    /\ filterModels(resp.got.all, req.args) = <<>>
    /\ resp.result = [IsError |-> FALSE, Text |-> NoModelsText]
    /\ resp.err = NoErr

(***************************************************************************)
(* uploadFiles of the query_bot tool                                       *)
(***************************************************************************)
MaxFiles == 2

\* The alphabet of base64.StdEncoding
Base64Alphabet ==
    <<"A", "B", "C", "D", "E", "F", "G", "H", "I", "J", "K", "L", "M", "N",
      "O", "P", "Q", "R", "S", "T", "U", "V", "W", "X", "Y", "Z", "a", "b",
      "c", "d", "e", "f", "g", "h", "i", "j", "k", "l", "m", "n", "o", "p",
      "q", "r", "s", "t", "u", "v", "w", "x", "y", "z", "0", "1", "2", "3",
      "4", "5", "6", "7", "8", "9", "+", "/">>

IsBase64Char(c) == \E i \in DOMAIN Base64Alphabet : Base64Alphabet[i] = c

Base64Value(c) ==
    (CHOOSE i \in DOMAIN Base64Alphabet : Base64Alphabet[i] = c) - 1

\* base64.StdEncoding.DecodeString: line feeds and carriage returns are
\* skipped, the rest is read four characters at a time, and only the last
\* four may end in one or two "=".  The value is the bytes and the error.
DecodeString(s) ==
    LET t == SelectSeq(s, LAMBDA c : c \notin {"\r", "\n"})
        n == Len(t) \div 4
        quad(k) == SubSeq(t, 4 * k - 3, 4 * k)
        pad(k) == IF k < n \/ quad(k)[4] # "=" THEN 0
                  ELSE IF quad(k)[3] # "=" THEN 1 ELSE 2
        legal(k) == \A j \in 1..(4 - pad(k)) : IsBase64Char(quad(k)[j])
        v(k, j) == IF j <= 4 - pad(k) THEN Base64Value(quad(k)[j]) ELSE 0
        word(k) == v(k, 1) * 262144 + v(k, 2) * 4096 + v(k, 3) * 64 + v(k, 4)
        bytes(k) == SubSeq(<<word(k) \div 65536, (word(k) \div 256) % 256,
                             word(k) % 256>>, 1, 3 - pad(k))
    IN  IF Len(t) % 4 # 0 \/ \E k \in 1..n : ~legal(k)
          THEN [data |-> <<>>, err |-> "illegal base64 data"]
          ELSE [data |-> Concat([k \in 1..n |-> bytes(k)]), err |-> NoErr]

\* The attachment client.UploadFile returns for an upload.
Attachment(opts) == [upload |-> opts]

\* The options of the upload of f: by url if it has one, else the decoded
\* content.
UploadFileOptions(f, key) ==
    IF f.URL # <<>>
      THEN [FileName |-> f.Name, APIKey |-> key, FileURL |-> f.URL,
            File |-> Nil]
      ELSE [FileName |-> f.Name, APIKey |-> key, FileURL |-> <<>>,
            File |-> Ptr(DecodeString(f.Content).data)]

\* A loop that leaves an invalid input out and goes on with the next one.
RECURSIVE uploadLoopSkipsInvalid(_, _, _, _, _, _)
uploadLoopSkipsInvalid(files, i, key, failAt, attachments, uploads) ==
    IF i > Len(files)
      THEN [attachments |-> attachments, err |-> NoErr, uploads |-> uploads]
    ELSE LET f == files[i]
             opts == UploadFileOptions(f, key)
         IN  IF \/ f.Name = <<>>
                \/ f.URL = <<>> /\ f.Content = <<>>
                \/ f.URL = <<>> /\ DecodeString(f.Content).err # NoErr
               THEN uploadLoopSkipsInvalid(files, i + 1, key, failAt,
                                           attachments, uploads)
             ELSE IF Len(uploads) + 1 = failAt
               THEN [attachments |-> <<>>, err |-> "upload failed",
                     uploads |-> Append(uploads, opts)]
             ELSE uploadLoopSkipsInvalid(files, i + 1, key, failAt,
                                         Append(attachments, Attachment(opts)),
                                         Append(uploads, opts))

\* The loop of uploadFiles from the i-th input on.  failAt is the number of
\* the client.UploadFile call that fails, 0 if none does; uploads are the
\* client.UploadFile calls issued so far.  The value is the attachments,
\* the error, and the uploads issued.
RECURSIVE uploadLoop(_, _, _, _, _, _)
uploadLoop(files, i, key, failAt, attachments, uploads) ==
    IF i > Len(files)
      THEN [attachments |-> attachments, err |-> NoErr, uploads |-> uploads]
    ELSE LET f == files[i]
             opts == UploadFileOptions(f, key)
         IN  IF f.Name = <<>>
               THEN [attachments |-> <<>>, err |-> "file name is required",
                     uploads |-> uploads]
             ELSE IF f.URL = <<>> /\ f.Content = <<>>
               THEN [attachments |-> <<>>,
                     err |-> "either url or content is required",
                     uploads |-> uploads]
             ELSE IF f.URL = <<>> /\ DecodeString(f.Content).err # NoErr
               THEN [attachments |-> <<>>, err |-> "invalid base64 content",
                     uploads |-> uploads]
             ELSE IF Len(uploads) + 1 = failAt
               THEN [attachments |-> <<>>, err |-> "upload failed",
                     uploads |-> Append(uploads, opts)]
             ELSE uploadLoop(files, i + 1, key, failAt,
                             Append(attachments, Attachment(opts)),
                             Append(uploads, opts))

uploadFiles(files, key, failAt) == uploadLoop(files, 1, key, failAt, <<>>, <<>>)

\* The contents: none, "hi" encoded, the same followed by a line feed, one
\* character short, and with a character outside the alphabet.
ContentInputs ==
    {<<>>,
     <<"a", "G", "k", "=">>,
     <<"a", "G", "k", "=", "\n">>,
     <<"a", "G", "k">>,
     <<"a", "!", "k", "=">>}

FileInputs ==
    [Name : {<<>>, <<"f">>}, URL : {<<>>, <<"u">>}, Content : ContentInputs]

FileLists == UNION {[1..n -> FileInputs] : n \in 0..MaxFiles}

UploadInputs ==
    {[op |-> "uploadFiles", files |-> fs, key |-> "fake-key", failAt |-> k] :
       fs \in FileLists, k \in 0..MaxFiles}

UploadInit ==
    /\ CacheInit
    /\ sequential = FALSE
    /\ FilterIdle
    /\ req \in UploadInputs
    /\ resp = <<>>
    /\ rpc = "ready"

\* The query_bot handler uploads the files of a request.
UploadFiles ==
    /\ rpc = "ready"
    /\ req.op = "uploadFiles"
    /\ resp' = uploadFiles(req.files, req.key, req.failAt)
    /\ rpc' = "done"
    /\ UNCHANGED <<req, filterVars>>
    /\ UNCHANGED <<now, cacheState, mu, pc, local, ret, seen, history>>

UploadNext == UploadFiles

UploadSpec == UploadInit /\ [][UploadNext]_vars

(***************************************************************************)
(* Properties of uploadFiles                                               *)
(***************************************************************************)
\* s is base64 in the standard alphabet: line feeds and carriage returns
\* aside, a multiple of four characters of the alphabet, of which the last
\* one or the last two may be "=".
IsBase64(s) ==
    LET t == SelectSeq(s, LAMBDA c : c \notin {"\r", "\n"})
    IN  /\ Len(t) % 4 = 0
        /\ \A i \in DOMAIN t :
             \/ IsBase64Char(t[i])
             \/ t[i] = "=" /\ i = Len(t)
             \/ t[i] = "=" /\ i = Len(t) - 1 /\ t[Len(t)] = "="

\* An input uploadFiles refuses.
Invalid(f) ==
    \/ f.Name = <<>>
    \/ f.URL = <<>> /\ f.Content = <<>>
    \/ f.URL = <<>> /\ ~IsBase64(f.Content)

\* An input that is invalid in the words of the claim.
InvalidAsClaimed(f) ==
    \/ f.Name = <<>>
    \/ f.URL = <<>> /\ f.Content = <<>>
    \/ f.Content # <<>> /\ ~IsBase64(f.Content)

\* The upload of f is by its url if it has one, else of its content.
UploadOf(u, f) ==
    /\ u.FileName = f.Name
    /\ u.FileURL = f.URL
    /\ f.URL = <<>> => u.File # Nil

\* C17 as claimed: an input with an empty name, with neither url nor
\* content, or with content that is not valid base64 makes uploadFiles
\* return an error.
C17_InvalidContentRejected ==
    (rpc = "done" /\ req.op = "uploadFiles") =>
      ((\E i \in DOMAIN req.files : InvalidAsClaimed(req.files[i]))
         => resp.err # NoErr)

\* C17: uploadFiles takes its inputs in order and stops at the first invalid
\* one: an input with an empty name, with neither url nor content, or with
\* no url and content that is not valid base64 makes it return an error and
\* no attachments, with no upload issued for that input or a later one;
\* the empty list gives no attachments and no error; on success there is
\* one attachment per input, in input order.
C17_StopsAtFirstInvalid ==
    (rpc = "done" /\ req.op = "uploadFiles") =>
      LET files == req.files
          bad == {i \in DOMAIN files : Invalid(files[i])}
      IN  /\ \A j \in DOMAIN resp.uploads : UploadOf(resp.uploads[j], files[j])
          /\ \A i \in bad :
               /\ resp.err # NoErr
               /\ resp.attachments = <<>>
               /\ Len(resp.uploads) < i
          /\ files = <<>> =>
               resp = [attachments |-> <<>>, err |-> NoErr, uploads |-> <<>>]
          /\ resp.err # NoErr => resp.attachments = <<>>
          /\ resp.err = NoErr =>
               /\ Len(resp.attachments) = Len(files)
               /\ Len(resp.uploads) = Len(files)
               /\ \A i \in DOMAIN files :
                    resp.attachments[i] = Attachment(resp.uploads[i])

\* C17 witness: of two inputs the first was uploaded from its content, the
\* second has a name and content that is not base64, and the call returned
\* the error for it, no attachment, and issued the one upload.
C17_Witness ==
    /\ rpc = "done"
    /\ req.op = "uploadFiles"
    /\ Len(req.files) = 2
    /\ req.files[1].URL = <<>>
    /\ req.files[2].Name # <<>>
    /\ req.files[2].URL = <<>>
    /\ req.files[2].Content # <<>>
    /\ ~IsBase64(req.files[2].Content)
    /\ resp.err = "invalid base64 content"
    /\ resp.attachments = <<>>
    /\ Len(resp.uploads) = 1

(***************************************************************************)
(* The command line: main, runCLI, runSearch, runQuery                     *)
(***************************************************************************)
MaxArgs == 3

ErrHelp == "flag: help requested"
UsageError ==
    "usage: query [-t temperature] [-f file] [--url url] <bot> <message>"
KeyRequiredError ==
    "POE_API_KEY environment variable is required for query command"

\* The flags of the search subcommand and the variables they set.
SearchFlags ==
    {[name |-> <<"o", "w", "n", "e", "r">>, var |-> "owner", kind |-> "string"],
     [name |-> <<"m", "o", "d", "a", "l", "i", "t", "y">>, var |-> "modality",
      kind |-> "string"]}

SearchDefaults == [owner |-> <<>>, modality |-> <<>>]

\* The flags of the query subcommand: --temperature has a variable of its
\* own, -f and --file share one list, -u and --url the other.
QueryFlags ==
    {[name |-> <<"t">>, var |-> "t", kind |-> "float"],
     [name |-> <<"t", "e", "m", "p", "e", "r", "a", "t", "u", "r", "e">>,
      var |-> "temperature", kind |-> "float"],
     [name |-> <<"f">>, var |-> "filePaths", kind |-> "list"],
     [name |-> <<"f", "i", "l", "e">>, var |-> "filePaths", kind |-> "list"],
     [name |-> <<"u">>, var |-> "fileURLs", kind |-> "list"],
     [name |-> <<"u", "r", "l">>, var |-> "fileURLs", kind |-> "list"]}

QueryDefaults ==
    [t |-> <<"0", ".", "7">>, temperature |-> <<"0", ".", "7">>,
     filePaths |-> <<>>, fileURLs |-> <<>>]

\* strconv.ParseFloat accepts s, for plain decimal numbers: digits with at
\* most one point among them.
IsFloat(s) ==
    /\ \A i \in DOMAIN s :
         s[i] = "." \/ \E d \in DOMAIN Digits : Digits[d] = s[i]
    /\ Cardinality({i \in DOMAIN s : s[i] = "."}) <= 1
    /\ \E i \in DOMAIN s : s[i] # "."

\* flag.FlagSet.Parse from the first of args on: set holds the variables of
\* the flags.  The value is the error, the variables and the arguments left.
RECURSIVE Parse(_, _, _)

\* The place of the first "=" of name after its first character, 0 if
\* there is none.
equalsAt(name) ==
    LET eqs == {i \in 2..Len(name) : name[i] = "="}
    IN  IF eqs = {} THEN 0 ELSE CHOOSE i \in eqs : \A j \in eqs : i <= j

\* The second half of parseOne: the flag called name is looked up and set.
\* rest are the arguments after the flag, left those after its value.
setFlag(flags, name, hasValue, value, rest, left, set) ==
    LET known == {f \in flags : f.name = name}
        flag == CHOOSE f \in known : TRUE
    IN  IF known = {}
          THEN IF name = <<"h">> \/ name = <<"h", "e", "l", "p">>
                 THEN [err |-> ErrHelp, set |-> set, args |-> rest]
                 ELSE [err |-> "flag provided but not defined", set |-> set,
                       args |-> rest]
        ELSE IF ~hasValue
          THEN [err |-> "flag needs an argument", set |-> set, args |-> rest]
        ELSE IF flag.kind = "float" /\ ~IsFloat(value)
          THEN [err |-> "invalid value for flag", set |-> set, args |-> left]
        ELSE Parse(flags, left,
                   [set EXCEPT ![flag.var] =
                      IF flag.kind = "list" THEN Append(@, value) ELSE value])

\* The first half of parseOne: spelled is the first argument without its
\* dashes, eq the place of its "=".  The value is after the "=", or else it
\* is the next argument.
parseOne(flags, args, set, spelled, eq) ==
    IF spelled = <<>> \/ spelled[1] = "-" \/ spelled[1] = "="
      THEN [err |-> "bad flag syntax", set |-> set, args |-> args]
    ELSE IF eq # 0
      THEN setFlag(flags, SubSeq(spelled, 1, eq - 1), TRUE,
                   SubSeq(spelled, eq + 1, Len(spelled)),
                   Tail(args), Tail(args), set)
    ELSE IF Len(args) > 1
      THEN setFlag(flags, spelled, TRUE, args[2], Tail(args),
                   Tail(Tail(args)), set)
    ELSE setFlag(flags, spelled, FALSE, <<>>, <<>>, <<>>, set)

Parse(flags, args, set) ==
    IF args = <<>> THEN [err |-> NoErr, set |-> set, args |-> args]
    ELSE IF Len(args[1]) < 2 \/ args[1][1] # "-"
      THEN [err |-> NoErr, set |-> set, args |-> args]
    ELSE IF args[1] = <<"-", "-">>
      THEN [err |-> NoErr, set |-> set, args |-> Tail(args)]
    ELSE IF args[1][2] = "-"
      THEN parseOne(flags, args, set, SubSeq(args[1], 3, Len(args[1])),
                    equalsAt(SubSeq(args[1], 3, Len(args[1]))))
    ELSE parseOne(flags, args, set, Tail(args[1]), equalsAt(Tail(args[1])))

\* Whether an event of one of the kinds is among the events.
Did(events, kinds) == \E i \in DOMAIN events : events[i].kind \in kinds

\* A search that asks for the credential the query subcommand needs.
runSearchWithKey(args, env, fetch) ==
    LET p == Parse(SearchFlags, args, SearchDefaults)
        read == <<[kind |-> "getenv", name |-> "POE_API_KEY"]>>
    IN  IF p.err # NoErr
          THEN [err |-> IF p.err = ErrHelp THEN NoErr ELSE p.err,
                events |-> <<[kind |-> "usage"]>>]
        ELSE IF env.POE_API_KEY = <<>>
          THEN [err |-> KeyRequiredError, events |-> read]
        ELSE [err |-> NoErr, events |-> read \o <<[kind |-> "fetch"]>>]

\* A search that asks the cache of its process for the catalog.
runSearchViaCache(args, env, fetch) ==
    IF Parse(SearchFlags, args, SearchDefaults).err # NoErr
      THEN [err |-> NoErr, events |-> <<[kind |-> "usage"]>>]
      ELSE [err |-> fetch.err,
            events |-> <<[kind |-> "get"], [kind |-> "fetch"]>>]

\* runSearch: the error it returns and what it did, in order.  fetch is
\* what models.Fetch comes back with.
runSearch(args, env, fetch) ==
    LET p == Parse(SearchFlags, args, SearchDefaults)
        searchArgs == [Query |-> Join(p.args, <<" ">>),
                       OwnedBy |-> p.set.owner,
                       Modality |-> p.set.modality]
        matched == filterModels(fetch.catalog, searchArgs)
        fetched == <<[kind |-> "fetch"]>>
    IN  IF p.err # NoErr
          THEN [err |-> IF p.err = ErrHelp THEN NoErr ELSE p.err,
                events |-> <<[kind |-> "usage"]>>]
        ELSE IF fetch.err # NoErr
          THEN [err |-> "error fetching models", events |-> fetched]
        ELSE IF Len(matched) = 0
          THEN [err |-> NoErr,
                events |-> Append(fetched,
                                  [kind |-> "print",
                                   text |-> NoModelsText \o <<"\n">>])]
        ELSE [err |-> NoErr,
              events |-> Append(fetched,
                                [kind |-> "print",
                                 text |-> formatModels(matched)])]

\* filepath.Base strips the trailing slashes: what is left of the first n
\* characters of path.
RECURSIVE stripSlashes(_, _)
stripSlashes(path, n) ==
    IF n > 0 /\ path[n] = "/" THEN stripSlashes(path, n - 1) ELSE n

\* filepath.Base looks for the last slash from the i-th character down.
RECURSIVE lastSlash(_, _)
lastSlash(path, i) ==
    IF i > 0 /\ path[i] # "/" THEN lastSlash(path, i - 1) ELSE i

\* filepath.Base: the last element of a path, trailing slashes aside.
Base(path) ==
    IF path = <<>> THEN <<".">>
    ELSE IF stripSlashes(path, Len(path)) = 0 THEN <<"/">>
    ELSE SubSeq(path,
                lastSlash(path, stripSlashes(path, Len(path))) + 1,
                stripSlashes(path, Len(path)))

\* The first loop of uploadCLIFiles from the i-th path on.  openable are
\* the paths os.Open opens; failAt is the number of the client.UploadFile
\* call that fails, 0 if none does; n is the number of uploads issued.
RECURSIVE uploadPaths(_, _, _, _, _, _, _, _)
uploadPaths(paths, i, key, openable, failAt, n, attachments, events) ==
    LET p == paths[i]
        opts == [FileName |-> Base(p), APIKey |-> key, FileURL |-> <<>>,
                 File |-> Ptr(p)]
        tried == events \o <<[kind |-> "open", path |-> p],
                             [kind |-> "upload", opts |-> opts],
                             [kind |-> "close", path |-> p]>>
    IN  IF i > Len(paths)
          THEN [attachments |-> attachments, err |-> NoErr, events |-> events,
                n |-> n]
        ELSE IF p \notin openable
          THEN [attachments |-> <<>>, err |-> "open",
                events |-> Append(events, [kind |-> "open", path |-> p]),
                n |-> n]
        ELSE IF n + 1 = failAt
          THEN [attachments |-> <<>>, err |-> "upload", events |-> tried,
                n |-> n + 1]
        ELSE uploadPaths(paths, i + 1, key, openable, failAt, n + 1,
                         Append(attachments, Attachment(opts)), tried)

\* The second loop of uploadCLIFiles from the i-th url on.
RECURSIVE uploadURLs(_, _, _, _, _, _, _)
uploadURLs(urls, i, key, failAt, n, attachments, events) ==
    LET u == urls[i]
        base == Base(u)
        name == IF base = <<>> \/ base = <<".">> \/ base = <<"/">>
                  THEN <<"f", "i", "l", "e">> ELSE base
        opts == [FileName |-> name, APIKey |-> key, FileURL |-> u,
                 File |-> Nil]
        tried == Append(events, [kind |-> "upload", opts |-> opts])
    IN  IF i > Len(urls)
          THEN [attachments |-> attachments, err |-> NoErr, events |-> events]
        ELSE IF n + 1 = failAt
          THEN [attachments |-> <<>>, err |-> "upload URL", events |-> tried]
        ELSE uploadURLs(urls, i + 1, key, failAt, n + 1,
                        Append(attachments, Attachment(opts)), tried)

\* An upload that takes the URLs before the local paths.
uploadCLIFilesURLsFirst(paths, urls, key, openable, failAt) ==
    LET first == uploadURLs(urls, 1, key, failAt, 0, <<>>, <<>>)
    IN  IF first.err # NoErr
          THEN first
          ELSE uploadPaths(paths, 1, key, openable, failAt, Len(urls),
                           first.attachments, first.events)

\* uploadCLIFiles: the attachments, the error, and what it did, in order.
uploadCLIFiles(paths, urls, key, openable, failAt) ==
    LET first == uploadPaths(paths, 1, key, openable, failAt, 0, <<>>, <<>>)
    IN  IF first.err # NoErr
          THEN [attachments |-> <<>>, err |-> first.err,
                events |-> first.events]
          ELSE uploadURLs(urls, 1, key, failAt, first.n, first.attachments,
                          first.events)

\* A query that looks for the key before it counts its arguments.
runQueryKeyFirst(args, env, openable, failAt) ==
    LET p == Parse(QueryFlags, args, QueryDefaults)
        read == <<[kind |-> "getenv", name |-> "POE_API_KEY"]>>
    IN  IF p.err # NoErr
          THEN [err |-> IF p.err = ErrHelp THEN NoErr ELSE p.err,
                events |-> <<[kind |-> "usage"]>>]
        ELSE IF env.POE_API_KEY = <<>>
          THEN [err |-> KeyRequiredError, events |-> read]
        ELSE IF Len(p.args) < 2
          THEN [err |-> UsageError, events |-> read]
        ELSE [err |-> NoErr,
              events |-> Append(read, [kind |-> "stream", bot |-> p.args[1]])]

\* runQuery: the error it returns and what it did, in order.  What the bot
\* streams back is not part of the model: of the printing only the closing
\* line feed is kept.
runQuery(args, env, openable, failAt) ==
    LET p == Parse(QueryFlags, args, QueryDefaults)
        positional == p.args
        bot == positional[1]
        message == Join(Tail(positional), <<" ">>)
        apiKey == env.POE_API_KEY
        read == <<[kind |-> "getenv", name |-> "POE_API_KEY"]>>
        up == IF p.set.filePaths # <<>> \/ p.set.fileURLs # <<>>
                THEN uploadCLIFiles(p.set.filePaths, p.set.fileURLs, apiKey,
                                    openable, failAt)
                ELSE [attachments |-> <<>>, err |-> NoErr, events |-> <<>>]
        stream == [kind |-> "stream", bot |-> bot, message |-> message,
                   attachments |-> up.attachments, temperature |-> p.set.t,
                   APIKey |-> apiKey]
    IN  IF p.err # NoErr
          THEN [err |-> IF p.err = ErrHelp THEN NoErr ELSE p.err,
                events |-> <<[kind |-> "usage"]>>]
        ELSE IF Len(positional) < 2
          THEN [err |-> UsageError, events |-> <<>>]
        ELSE IF apiKey = <<>>
          THEN [err |-> KeyRequiredError, events |-> read]
        ELSE IF up.err # NoErr
          THEN [err |-> "file upload", events |-> read \o up.events]
        ELSE [err |-> NoErr,
              events |-> (read \o up.events)
                           \o <<stream, [kind |-> "print", text |-> <<"\n">>]>>]

\* The words of the command lines.
SearchCmd == <<"s", "e", "a", "r", "c", "h">>
QueryCmd == <<"q", "u", "e", "r", "y">>
HelpCmd == <<"h", "e", "l", "p">>
BadCmd == <<"b", "a", "d", "c", "o", "m", "m", "a", "n", "d">>
OwnerFlag == <<"-", "-", "o", "w", "n", "e", "r">>
ModalityFlag == <<"-", "-", "m", "o", "d", "a", "l", "i", "t", "y">>
ModalityImage == <<"-", "m", "o", "d", "a", "l", "i", "t", "y", "=", "i",
                   "m", "a", "g", "e">>
LongHelpFlag == <<"-", "-", "h", "e", "l", "p">>
HelpFlag == <<"-", "h">>
BogusFlag == <<"-", "-", "b", "o", "g", "u", "s">>
EndOfFlags == <<"-", "-">>
LongFileFlag == <<"-", "-", "f", "i", "l", "e">>
FileFlag == <<"-", "f">>
URLFlag == <<"-", "-", "u", "r", "l">>
TemperatureFlag == <<"-", "t">>
OpenAIWord == <<"O", "p", "e", "n", "A", "I">>
GoogleWord == <<"g", "o", "o", "g", "l", "e">>
TextWord == <<"t", "e", "x", "t">>
GptWord == <<"g", "p", "t">>
CodexWord == <<"c", "o", "d", "e", "x">>
PathA == <<"a", ".", "t", "x", "t">>
PathB == <<"d", "i", "r", "/", "b", ".", "p", "n", "g">>
DocURL == <<"h", "t", "t", "p", ":", "/", "/", "h", "/", "d", ".", "p",
            "d", "f">>
NotANumber == <<"h", "o", "t">>
Warm == <<"0", ".", "9">>
BotWord == <<"G", "P", "T", "-", "4", "o">>
HelloWord == <<"h", "e", "l", "l", "o">>

\* runCLI: the subcommand is the first argument.
runCLI(args, env, fetch, openable, failAt) ==
    IF Len(args) = 0 THEN [err |-> NoErr, events |-> <<[kind |-> "usage"]>>]
    ELSE IF args[1] \in {HelpCmd, LongHelpFlag, HelpFlag}
      THEN [err |-> NoErr, events |-> <<[kind |-> "usage"]>>]
    ELSE IF args[1] = SearchCmd
      THEN runSearch(Tail(args), env, fetch)
    ELSE IF args[1] = QueryCmd
      THEN runQuery(Tail(args), env, openable, failAt)
    ELSE [err |-> "unknown subcommand", events |-> <<[kind |-> "usage"]>>]

\* main: with arguments the command line runs and log.Fatal ends the
\* process with status 1 on an error; without arguments the server starts,
\* which needs the key.  osArgs are os.Args without the program name.
main(osArgs, env, fetch, openable, failAt) ==
    LET cli == runCLI(osArgs, env, fetch, openable, failAt)
        read == <<[kind |-> "getenv", name |-> "POE_API_KEY"]>>
    IN  IF Len(osArgs) > 0
          THEN [exit |-> IF cli.err # NoErr THEN 1 ELSE 0, err |-> cli.err,
                events |-> cli.events]
        ELSE IF env.POE_API_KEY = <<>>
          THEN [exit |-> 1,
                err |-> "POE_API_KEY environment variable is required",
                events |-> read]
        ELSE [exit |-> 0, err |-> NoErr,
              events |-> Append(read, [kind |-> "serve"])]

(***************************************************************************)
(* Inputs of the command line                                              *)
(***************************************************************************)
SearchFlagInputs ==
    {<<>>,
     <<OwnerFlag, OpenAIWord>>,
     <<ModalityImage>>,
     <<OwnerFlag, GoogleWord,
       ModalityFlag, TextWord>>,
     <<HelpFlag>>,
     <<LongHelpFlag>>,
     <<BogusFlag>>,
     <<OwnerFlag>>,
     <<EndOfFlags, HelpFlag>>}

SearchWords == {GptWord, CodexWord}

QueryFlagInputs ==
    {<<>>,
     <<FileFlag, PathA>>,
     <<URLFlag, DocURL,
       LongFileFlag, PathB>>,
     <<TemperatureFlag, Warm>>,
     <<TemperatureFlag, NotANumber>>,
     <<HelpFlag>>,
     <<BogusFlag>>,
     <<FileFlag>>}

QueryWords == {BotWord, HelloWord}

WordLists(words) == UNION {[1..n -> words] : n \in 0..MaxArgs}

Paths == {PathA, PathB}

EnvInputs == {[POE_API_KEY |-> <<>>], [POE_API_KEY |-> <<"k", "e", "y">>]}

NoFetch == [catalog |-> <<>>, err |-> NoErr]

\* os.Args without the program name, the environment, and what the outside
\* world answers: the catalog fetch, the files that open, the upload that
\* fails.
CliInputs ==
    {[op |-> "main", args |-> (<<SearchCmd>> \o fl) \o ws,
      env |-> env, fetch |-> fetch, openable |-> Paths, failAt |-> 0] :
       fl \in SearchFlagInputs, ws \in WordLists(SearchWords),
       env \in EnvInputs, fetch \in ToolFetchOutcomes}
    \cup
    {[op |-> "main", args |-> (<<QueryCmd>> \o fl) \o ws,
      env |-> env, fetch |-> NoFetch, openable |-> openable,
      failAt |-> failAt] :
       fl \in QueryFlagInputs, ws \in WordLists(QueryWords),
       env \in EnvInputs, openable \in {Paths, {PathB}},
       failAt \in 0..2}
    \cup
    {[op |-> "main", args |-> args, env |-> env, fetch |-> NoFetch,
      openable |-> Paths, failAt |-> 0] :
       args \in {<<>>, <<HelpCmd>>, <<BadCmd>>},
       env \in EnvInputs}

Subcommand(args) == IF args = <<>> THEN <<>> ELSE args[1]

CliInit ==
    /\ CacheInit
    /\ sequential = FALSE
    /\ FilterIdle
    /\ req \in CliInputs
    /\ resp = <<>>
    /\ rpc = "ready"

\* The process runs from main to its exit.
Main ==
    /\ rpc = "ready"
    /\ req.op = "main"
    /\ resp' = main(req.args, req.env, req.fetch, req.openable, req.failAt)
    /\ rpc' = "done"
    /\ UNCHANGED <<req, filterVars>>
    /\ UNCHANGED <<now, cacheState, mu, pc, local, ret, seen, history>>

\* poe-mcp search ...
MainSearch == Subcommand(req.args) = SearchCmd /\ Main

\* poe-mcp query ...
MainQuery == Subcommand(req.args) = QueryCmd /\ Main

\* poe-mcp, poe-mcp help, poe-mcp <anything else>
MainOther ==
    /\ Subcommand(req.args) \notin {SearchCmd, QueryCmd}
    /\ Main

CliNext == MainSearch \/ MainQuery \/ MainOther

CliSpec == CliInit /\ [][CliNext]_vars

(***************************************************************************)
(* Properties of the command line                                          *)
(***************************************************************************)
OtherEnv(env) == CHOOSE e \in EnvInputs : e # env

\* C15: the search subcommand never reads POE_API_KEY and runs the same
\* with and without it; when the catalog fetch succeeds it prints the
\* formatted matches, or the "no models found" message when none match, and
\* ends with a nil error and exit code 0 in both cases; when the catalog
\* fetch fails it ends with an error and a non-zero exit code.
C15_SearchNeedsNoKey ==
    (rpc = "done" /\ Subcommand(req.args) = SearchCmd) =>
      LET p == Parse(SearchFlags, Tail(req.args), SearchDefaults)
          matched == filterModels(req.fetch.catalog,
                                  [Query |-> Join(p.args, <<" ">>),
                                   OwnedBy |-> p.set.owner,
                                   Modality |-> p.set.modality])
          fetched == Did(resp.events, {"fetch"})
          printed == resp.events[Len(resp.events)]
      IN  /\ ~Did(resp.events, {"getenv"})
          /\ resp = main(req.args, OtherEnv(req.env), req.fetch, req.openable,
                         req.failAt)
          /\ p.err = NoErr => fetched
          /\ (fetched /\ req.fetch.err = NoErr) =>
               /\ resp.err = NoErr
               /\ resp.exit = 0
               /\ printed.kind = "print"
               /\ printed.text = IF matched = <<>>
                                   THEN NoModelsText \o <<"\n">>
                                   ELSE formatModels(matched)
          /\ (fetched /\ req.fetch.err # NoErr) =>
               /\ resp.err # NoErr
               /\ resp.exit # 0

\* C15 witness: without a key in the environment a search whose flags and
\* query match one model of the two fetched printed it and ended with exit
\* code 0.
C15_Witness ==
    /\ rpc = "done"
    /\ Subcommand(req.args) = SearchCmd
    /\ req.env.POE_API_KEY = <<>>
    /\ Len(req.args) >= 3
    /\ req.fetch.err = NoErr
    /\ Len(req.fetch.catalog) = 2
    /\ resp.exit = 0
    /\ resp.err = NoErr
    /\ resp.events[Len(resp.events)].kind = "print"
    /\ HasPrefix(resp.events[Len(resp.events)].text,
                 FoundText \o <<"1">> \o ModelsText)

\* What runQuery does once it acts: open a file, upload, stream.
Acted(events) == Did(events, {"open", "upload", "stream"})

\* C16 as claimed, with any error taken for a usage error: runQuery with
\* fewer than two positional arguments returns an error, and with two or
\* more but no POE_API_KEY the error naming POE_API_KEY, and in neither
\* case opens, uploads or streams.
C16_ValidatesBeforeActing ==
    (rpc = "done" /\ Subcommand(req.args) = QueryCmd) =>
      LET p == Parse(QueryFlags, Tail(req.args), QueryDefaults)
      IN  /\ Len(p.args) < 2 =>
               resp.err # NoErr /\ ~Acted(resp.events)
          /\ (p.err = NoErr /\ Len(p.args) >= 2
                /\ req.env.POE_API_KEY = <<>>) =>
               resp.err = KeyRequiredError /\ ~Acted(resp.events)

\* C16: once its flags have parsed, runQuery with fewer than two positional
\* arguments returns the usage error, key or no key, without reading the
\* key; with two or more positional arguments and no POE_API_KEY it returns
\* the error naming POE_API_KEY; in both cases, and when the flags do not
\* parse or ask for help, it opens no file, uploads nothing and streams no
\* request.
C16_ValidatesAfterParse ==
    (rpc = "done" /\ Subcommand(req.args) = QueryCmd) =>
      LET p == Parse(QueryFlags, Tail(req.args), QueryDefaults)
      IN  /\ (p.err = NoErr /\ Len(p.args) < 2) =>
               /\ resp.err = UsageError
               /\ resp.events = <<>>
          /\ (p.err = NoErr /\ Len(p.args) >= 2
                /\ req.env.POE_API_KEY = <<>>) =>
               /\ resp.err = KeyRequiredError
               /\ ~Acted(resp.events)
          /\ p.err = ErrHelp => resp.err = NoErr /\ ~Acted(resp.events)
          /\ p.err \notin {NoErr, ErrHelp} =>
               resp.err = p.err /\ ~Acted(resp.events)

\* C16 witness: a file is given with -f, bot and message are there, the
\* key is not: runQuery returned the error naming POE_API_KEY and did not
\* open the file.
C16_Witness ==
    /\ rpc = "done"
    /\ Subcommand(req.args) = QueryCmd
    /\ req.env.POE_API_KEY = <<>>
    /\ LET p == Parse(QueryFlags, Tail(req.args), QueryDefaults)
       IN  /\ p.err = NoErr
           /\ p.set.filePaths # <<>>
           /\ Len(p.args) = 2
    /\ resp.err = KeyRequiredError
    /\ resp.exit = 1
    /\ ~Acted(resp.events)

(***************************************************************************)
(* The two search front-ends side by side: the server's search_models      *)
(* requests, each a caller of cache.get, and one run of poe-mcp search in  *)
(* a process of its own.                                                   *)
(***************************************************************************)
\* The runs of poe-mcp search: a query word, a help request.
SearchRuns ==
    {r \in CliInputs : /\ r.args \in {<<SearchCmd, GptWord>>,
                                      <<SearchCmd, HelpFlag>>}
                       /\ r.env.POE_API_KEY = <<>>}

SearchInit ==
    /\ CacheInit
    /\ sequential = FALSE
    /\ FilterIdle
    /\ req \in SearchRuns
    /\ resp = <<>>
    /\ rpc = "ready"

SearchNext == Tick \/ Get(1) \/ MainSearch

SearchSpec == SearchInit /\ [][SearchNext]_vars

\* The calls of models.Fetch among the events of a run.
FetchEvents(events) == {i \in DOMAIN events : events[i].kind = "fetch"}

\* C21 as claimed: every search request, of the search_models handler and
\* of the search subcommand alike, obtains the catalog by calling cache.get,
\* so that every call of models.Fetch made for a search is issued while the
\* write lock of the cache is held.
C21_EverySearchThroughCache ==
    /\ \A p \in InFetch : mu.writer = p
    /\ (rpc = "done" /\ FetchEvents(resp.events) # {}) =>
         /\ Did(resp.events, {"get"})
         /\ mu.writer # NoOne

\* C21: every search_models request obtains the catalog by calling
\* cache.get, so each of its models.Fetch calls is issued while the caller
\* holds the write lock of the cache; the search subcommand never calls
\* cache.get: whenever its flags parse it calls models.Fetch itself, once,
\* and otherwise not at all.
C21_ToolThroughCacheCliDirect ==
    /\ \A p \in InFetch : mu.writer = p
    /\ rpc = "done" =>
         /\ ~Did(resp.events, {"get"})
         /\ Cardinality(FetchEvents(resp.events)) <= 1
         /\ FetchEvents(resp.events) # {} <=>
              Parse(SearchFlags, Tail(req.args), SearchDefaults).err = NoErr

\* C21 witness: the search subcommand has fetched the catalog itself and
\* printed its matches while nobody holds the lock of the cache, and a
\* search_models request has had the cache refreshed.
C21_Witness ==
    /\ rpc = "done"
    /\ resp.err = NoErr
    /\ FetchEvents(resp.events) # {}
    /\ Did(resp.events, {"print"})
    /\ mu.writer = NoOne
    /\ nFetch > 0
    /\ Len(models.elems) > 0

(***************************************************************************)
(* The empty catalog in the cache                                          *)
(***************************************************************************)
\* C22: a successful fetch that delivers an empty catalog is stored like any
\* other: c.models becomes the empty slice fetched, whatever it held before,
\* and c.fetchedAt the time of the store.  A cache with empty entries is
\* never fresh: a freshness check that reads empty entries fails whatever
\* the age, and a get call whose deciding check read empty entries calls
\* the Fetcher, once.
C22_EmptyStoredNeverFresh ==
    /\ [](\A p \in Callers :
            (PastLastCheck(p) /\ LastSeen(p).entries.elems = <<>>) =>
               /\ pc[p] # "hit"
               /\ local[p].calls = 1)
    /\ [][\A p \in Callers :
            /\ (pc[p] = "store1" /\ pc'[p] = "store2") =>
                 /\ models' = local[p].fetched
                 /\ fetchedAt' = fetchedAt
            /\ (pc[p] = "store2" /\ pc'[p] = "unlock") =>
                 /\ fetchedAt' = now
                 /\ models' = models
                 /\ ret'[p] = [entries |-> models, err |-> NoErr]
            /\ (pc[p] = "check1" /\ pc'[p] # "check1"
                  /\ models.elems = <<>>) => pc'[p] = "runlock"
            /\ (pc[p] = "check2" /\ pc'[p] # "check2"
                  /\ models.elems = <<>>) =>
                 /\ pc'[p] = "fetching"
                 /\ nFetch' = nFetch + 1]_vars

\* C22 witness: an empty catalog has replaced a non-empty one and was
\* stamped this very minute, and a later get call is in its Fetcher call.
C22_Witness ==
    \E p \in Callers :
      /\ pc[p] = "fetching"
      /\ models.elems = <<>>
      /\ models.id > 0
      /\ stampedBy = models.id
      /\ fetchedAt = now
      /\ \E s \in delivered : s.id < models.id /\ Len(s.elems) > 0
      /\ Len(seen[p]) = 2
      /\ seen[p][1].elapsed = 0

(***************************************************************************)
(* get under a fair lock and a Fetcher that answers                        *)
(***************************************************************************)
\* The steps of get that wait for c.mu.
Acquire(p) == RLock(p) \/ LockAnnounce(p) \/ LockAcquire(p)

\* The steps of get that wait for nothing but the caller itself or the
\* answer of models.Fetch.
Proceed(p) ==
    \/ Check1(p)
    \/ RUnlockHit(p)
    \/ RUnlockStale(p)
    \/ Check2(p)
    \/ FetchOK(p)
    \/ FetchFail(p)
    \/ StoreModels(p)
    \/ StoreFetchedAt(p)
    \/ Unlock(p)

\* Every caller keeps running, every models.Fetch call returns, and a
\* caller that can get the lock again and again does get it.
Fairness ==
    \A p \in Callers : WF_vars(Proceed(p)) /\ SF_vars(Acquire(p))

LiveSpec == Init /\ [][Next]_vars /\ Fairness

\* What each caller holds of c.mu, by its position in get.
LockDiscipline ==
    \A p \in Callers :
      /\ p \in mu.readers <=> pc[p] \in {"check1", "hit", "runlock"}
      /\ mu.pending = p <=> pc[p] = "lockwait"
      /\ mu.writer = p <=>
           pc[p] \in {"check2", "fetching", "store1", "store2", "unlock"}

\* C23: every get call releases exactly the lock it acquired on each of its
\* four paths, so a caller that is not inside get holds nothing of the
\* lock, and a caller that asks for the write lock no longer holds the read
\* lock; with a fair lock and a Fetcher that always answers, some step is
\* possible whenever a call is under way, and every get call returns.
C23_ReleasesAndReturns ==
    /\ [](/\ LockDiscipline
          /\ (\E p \in Callers : pc[p] # "idle") =>
               ENABLED (\E p \in Callers : Proceed(p) \/ Acquire(p)))
    /\ \A p \in Callers : (pc[p] # "idle") ~> (pc[p] = "idle")

\* C23 witness: one caller is in its Fetcher call under the write lock, the
\* other, whose first check was stale too, is held back from the write
\* lock, and a call has already returned.
C23_Witness ==
    \E p, q \in Callers :
      /\ pc[p] = "fetching"
      /\ pc[q] = "lock"
      /\ mu.writer = p
      /\ mu.readers = {}
      /\ nCalls = MaxCalls

(***************************************************************************)
(* Query words at the borders of the searchable fields                     *)
(***************************************************************************)
\* Queries made of the end of one field and the start of the next, as one
\* word and as two, and words from inside a field that holds spaces.
EndOfIDStartOfName == <<"4", "o", "g", "p", "t">>
EndOfIDThenName == <<"4", "o", " ", "G", "P", "T">>
EndOfDescriptionStartOfOwner == <<"m", "o", "d", "e", "l", "O", "p", "e", "n", "A", "I">>
EndOfNameStartOfDescription == <<"3", "o", "p", "e", "n", "a", "i", "'", "s">>
InsideDescription == <<"F", "L", "A", "G", "S", "H", "I", "P">>
AcrossSpaceInDescription == <<"i", "m", "a", "g", "e", " ", "g", "e", "n", "e", "r", "a", "t", "i",
      "o", "n">>

BorderQueries ==
    {EndOfIDStartOfName, EndOfIDThenName, EndOfDescriptionStartOfOwner,
     EndOfNameStartOfDescription, InsideDescription, AcrossSpaceInDescription}

BorderInit ==
    /\ CacheInit
    /\ sequential = FALSE
    /\ fAll \in CatalogInputs
    /\ fArgs \in [Query : BorderQueries, OwnedBy : {<<>>}, Modality : {<<>>}]
    /\ fResult = <<>>
    /\ fpc = "ready"
    /\ CallIdle

BorderSpec == BorderInit /\ [][FilterNext]_vars

\* The four fields matchesQuery searches.
SearchableFields(m) == <<m.ID, m.DisplayName, m.Description, m.OwnedBy>>

\* word is a case-insensitive substring of one of the fields of m.
InSomeField(m, word) ==
    \E k \in 1..4 : Contains(ToLower(SearchableFields(m)[k]), word)

\* word is a substring of the fields of m written one after the other.
InFieldsRunTogether(m, word) ==
    Contains(ToLower(Join(SearchableFields(m), <<>>)), word)

\* Every word of the query is in some field of m.
EveryWordInSomeField(m) ==
    \A w \in DOMAIN Fields(ToLower(fArgs.Query)) :
      InSomeField(m, Fields(ToLower(fArgs.Query))[w])

\* C24: a query word is found in the combined text of a model iff it is a
\* case-insensitive substring of at least one of the fields id, display
\* name, description and owner taken on its own, and the models a query
\* keeps are those with every word in some field: a word that only occurs
\* where one field ends and the next begins does not match.
C24_WordWithinOneField ==
    fpc = "done" =>
      /\ \A i \in DOMAIN fAll :
           \A w \in DOMAIN Fields(ToLower(fArgs.Query)) :
             LET word == Fields(ToLower(fArgs.Query))[w]
             IN  /\ ~\E c \in DOMAIN word : IsSpace(word[c])
                 /\ Contains(ToLower(Join(SearchableFields(fAll[i]), <<" ">>)),
                             word)
                      <=> InSomeField(fAll[i], word)
      /\ fResult = SelectSeq(fAll, EveryWordInSomeField)

\* C24 witness: the one word of the query is the end of a model's id
\* followed by the start of its display name; it is in neither field, and
\* the model was not kept.
C24_Witness ==
    /\ fpc = "done"
    /\ Len(fAll) > 0
    /\ Len(Fields(ToLower(fArgs.Query))) = 1
    /\ InFieldsRunTogether(fAll[1], Fields(ToLower(fArgs.Query))[1])
    /\ ~InSomeField(fAll[1], Fields(ToLower(fArgs.Query))[1])
    /\ fResult = <<>>

(***************************************************************************)
(* uploadCLIFiles on its own and behind the flags of poe-mcp query         *)
(***************************************************************************)
RootURL == <<"/">>
ShortURLFlag == <<"-", "u">>

\* The local paths and the URLs of a call, up to MaxFiles of each.
PathLists == UNION {[1..n -> Paths] : n \in 0..MaxFiles}
URLLists == UNION {[1..n -> {DocURL, RootURL}] : n \in 0..MaxFiles}

\* Command lines that mix -f and --url in every order.
MixedFlags ==
    {<<URLFlag, DocURL, FileFlag, PathA>>,
     <<FileFlag, PathA, URLFlag, DocURL, LongFileFlag, PathB>>,
     <<ShortURLFlag, RootURL, LongFileFlag, PathB, URLFlag, DocURL>>}

CliUploadInputs ==
    {[op |-> "uploadCLIFiles", paths |-> paths, urls |-> urls,
      env |-> [POE_API_KEY |-> <<"k", "e", "y">>], openable |-> openable,
      failAt |-> failAt, args |-> <<>>] :
       paths \in PathLists, urls \in URLLists,
       openable \in {Paths, {PathB}}, failAt \in 0..(MaxFiles + 1)}
    \cup
    {[op |-> "main", args |-> (<<QueryCmd>> \o fl) \o <<BotWord, HelloWord>>,
      env |-> [POE_API_KEY |-> <<"k", "e", "y">>], fetch |-> NoFetch,
      openable |-> openable, failAt |-> failAt] :
       fl \in MixedFlags, openable \in {Paths, {PathB}},
       failAt \in 0..(MaxFiles + 1)}

CliUploadInit ==
    /\ CacheInit
    /\ sequential = FALSE
    /\ FilterIdle
    /\ req \in CliUploadInputs
    /\ resp = <<>>
    /\ rpc = "ready"

\* One call of uploadCLIFiles, from its arguments to its return.
UploadCLIFiles ==
    /\ rpc = "ready"
    /\ req.op = "uploadCLIFiles"
    /\ resp' = uploadCLIFiles(req.paths, req.urls, req.env.POE_API_KEY,
                              req.openable, req.failAt)
    /\ rpc' = "done"
    /\ UNCHANGED <<req, filterVars>>
    /\ UNCHANGED <<now, cacheState, mu, pc, local, ret, seen, history>>

CliUploadNext == UploadCLIFiles \/ MainQuery

CliUploadSpec == CliUploadInit /\ [][CliUploadNext]_vars

\* The uploads among the events, in order.
UploadsIn(events) ==
    LET ups == SelectSeq(events, LAMBDA e : e.kind = "upload")
    IN  [i \in DOMAIN ups |-> ups[i].opts]

\* The paths opened among the events, in order.
OpenedIn(events) ==
    LET opens == SelectSeq(events, LAMBDA e : e.kind = "open")
    IN  [i \in DOMAIN opens |-> opens[i].path]

\* The upload of the k-th file of the call: the paths come first.
PlannedUpload(paths, urls, key, k) ==
    IF k <= Len(paths)
      THEN [FileName |-> Base(paths[k]), APIKey |-> key, FileURL |-> <<>>,
            File |-> Ptr(paths[k])]
      ELSE [FileName |-> IF Base(urls[k - Len(paths)]) \in {<<>>, <<".">>, <<"/">>}
                           THEN <<"f", "i", "l", "e">>
                           ELSE Base(urls[k - Len(paths)]),
            APIKey |-> key, FileURL |-> urls[k - Len(paths)], File |-> Nil]

\* The number of the first path that does not open, 0 if all do.
FirstUnopenable(paths, openable) ==
    IF \A i \in DOMAIN paths : paths[i] \in openable THEN 0
    ELSE CHOOSE i \in DOMAIN paths :
           /\ paths[i] \notin openable
           /\ \A j \in 1..(i - 1) : paths[j] \in openable

\* The number of uploads a call issues: all of them, or those before the
\* path that does not open, or those up to the upload that fails.
UploadsIssued(paths, urls, openable, failAt) ==
    LET reach == IF FirstUnopenable(paths, openable) = 0
                   THEN Len(paths) + Len(urls)
                   ELSE FirstUnopenable(paths, openable) - 1
    IN  IF failAt \in 1..reach THEN failAt ELSE reach

\* What a call of uploadCLIFiles must have done and returned.
UploadedInOrder(paths, urls, key, openable, failAt, events, attachments, ok) ==
    LET n == UploadsIssued(paths, urls, openable, failAt)
        whole == n = Len(paths) + Len(urls) /\ failAt \notin 1..n
    IN  /\ UploadsIn(events) =
             [k \in 1..n |-> PlannedUpload(paths, urls, key, k)]
        /\ \A i \in DOMAIN events : events[i].kind \in {"open", "upload", "close"}
        /\ \E m \in 0..Len(paths) : OpenedIn(events) = SubSeq(paths, 1, m)
        /\ ok <=> whole
        /\ attachments =
             IF whole
               THEN [k \in 1..n |-> Attachment(PlannedUpload(paths, urls, key, k))]
               ELSE <<>>

\* The events of a run of poe-mcp query that belong to uploadCLIFiles.
UploadEvents(events) ==
    SelectSeq(events, LAMBDA e : e.kind \in {"open", "upload", "close"})

\* C25: uploadCLIFiles uploads every local path in the order given, then
\* every URL in the order given, so the attachments are the path
\* attachments followed by the URL attachments, however -f and --url were
\* mixed on the command line; at the first path that does not open or the
\* first upload that fails it returns an error and no attachments, issues
\* no further upload and undoes nothing; with no path and no URL it returns
\* no attachment and no error and does nothing.
C25_PathsThenURLs ==
    rpc = "done" =>
      IF req.op = "uploadCLIFiles"
        THEN /\ UploadedInOrder(req.paths, req.urls, req.env.POE_API_KEY,
                                req.openable, req.failAt, resp.events,
                                resp.attachments, resp.err = NoErr)
             /\ (req.paths = <<>> /\ req.urls = <<>>) =>
                  resp = [attachments |-> <<>>, err |-> NoErr, events |-> <<>>]
        ELSE LET p == Parse(QueryFlags, Tail(req.args), QueryDefaults)
                 streams == SelectSeq(resp.events, LAMBDA e : e.kind = "stream")
             IN  UploadedInOrder(p.set.filePaths, p.set.fileURLs,
                                 req.env.POE_API_KEY, req.openable, req.failAt,
                                 UploadEvents(resp.events),
                                 IF streams = <<>> THEN <<>>
                                 ELSE streams[1].attachments,
                                 resp.err = NoErr)

\* C25 witness: a command line with a URL before each of two files; the
\* bot got three attachments, the two files first.
C25_Witness ==
    /\ rpc = "done"
    /\ req.op = "main"
    /\ resp.err = NoErr
    /\ req.args[2] = ShortURLFlag
    /\ LET streams == SelectSeq(resp.events, LAMBDA e : e.kind = "stream")
       IN  /\ Len(streams) = 1
           /\ Len(streams[1].attachments) = 3
           /\ streams[1].attachments[1].upload.File = Ptr(PathB)
           /\ streams[1].attachments[3].upload.FileURL = DocURL

\* C25 second witness: the second of two uploads failed after the first
\* path was uploaded: one upload stays made, no attachment is returned.
C25_WitnessFailure ==
    /\ rpc = "done"
    /\ req.op = "uploadCLIFiles"
    /\ resp.err # NoErr
    /\ Len(UploadsIn(resp.events)) = 2
    /\ Len(req.paths) + Len(req.urls) > 2
    /\ resp.attachments = <<>>

=============================================================================
